---- MODULE Spec2Model ----
(***************************************************************************)
(* Voice pipeline of the guided form session: the voice-activity detector  *)
(* (voice_api/vad.py), the VAD-gated capture loop and its sibling loops    *)
(* (voice_api/client.py) and the ungated session loops                     *)
(* (voice_api/app/session.py) over the two frame queues of AudioPipelines. *)
(*                                                                         *)
(* asyncio runs the four loops on one cooperative scheduler: a loop's code *)
(* between two awaits is one atomic action.                                *)
(***************************************************************************)
EXTENDS Integers, Sequences, FiniteSets

----------------------------------------------------------------------------
(* Bounds of the model and scaled-down configuration values.               *)

\* VADConfig.speech_start_frames as client.run() sets it.
speech_start_frames == 2
\* VADConfig.speech_end_frames, scaled down (client.run(): 20).
speech_end_frames == 2
\* VADConfig.min_speech_duration, in clock ticks.
min_speech_duration == 2
\* VADConfig.max_speech_duration, in clock ticks.
max_speech_duration == 3
\* time.time() is read in ticks and taken not to run backwards; it starts at
\* 1 and the model stops it here.
MaxClock == 6
\* Largest advance of time.time() between two process_frame calls.
MaxDt == 1
\* AudioConfig.mic_queue_maxsize
mic_queue_maxsize == 5
\* AudioPipelines.playback_queue = asyncio.Queue(): maxsize 0, no limit
playback_queue_maxsize == 0
\* listen_to_microphone's max_buffer_size, scaled down (client.py: 17).
max_buffer_size == 2
\* listen_to_microphone's max_post_speech_frames, scaled down (client.py: 10).
max_post_speech_frames == 3
\* Frames the microphone delivers in a run of the model.
MaxFrames == 7
\* Audio chunks the session delivers in a run of the model.
MaxChunks == 3
\* Audio parts of one received message.
MaxParts == 2
\* len(ANMELDUNG_FORM_FIELDS), scaled down.
NumFields == 2
\* advance() calls a caller makes beyond the end of the form.
MaxOver == 1
\* Function calls in one tool_call of the session.
MaxBatch == 2
\* Function calls in one tool_call of a session that has subscribers.
MaxBurst == 3
\* maxsize of a subscriber's asyncio.Queue.
event_queue_maxsize == 2
\* Events broadcast to subscribers in one run.
MaxEmits == 3
\* Samples in a frame: sample_rate * frame_duration_ms / 1000 (480),
\* scaled down
samples_per_frame == 2

\* Bytes by which a frame handed to process_frame may exceed frame_size
MaxExtra == 2

\* The byte values of a frame: 0 and one that makes a loud sample as the
\* high byte
Bytes == {0, 32}
\* Audio parts a session delivers while the playback loop is stalled.
MaxBacklog == 6
\* WebSocket connections accepted in one run.
MaxSockets == 2
\* start() calls that launch a pipeline thread in one run.
MaxStarts == 3

----------------------------------------------------------------------------
(* SpeechState                                                             *)

SILENCE == "silence"
SPEAKING == "speaking"
SPEECH_ENDED == "speech_ended"

\* Optional[float] None; `x or current_time` treats None and 0.0 alike, and
\* time.time() never returns 0.
None == 0

VARIABLES
    vad,            \* the VoiceActivityDetector: state, both windows, timing
    now,            \* the last value time.time() returned
    h_called,       \* history: process_frame has been called since reset
    h_prev,         \* history: vad.state when the last process_frame began
    h_ret,          \* history: what the last process_frame returned
    h_dur,          \* history: speech_duration the last process_frame computed
    h_run,          \* history: speech frames in a row since construction/reset
    h_sil,          \* history: non-speech frames in a row since SPEAKING began
    captured,       \* frames read from the microphone; a frame is its number
    pre_speech_buffer,      \* listen_to_microphone's local list
    is_currently_speaking,  \* listen_to_microphone's local flag
    post_speech_frames,     \* listen_to_microphone's local counter
    mic_queue,      \* AudioPipelines.mic_queue, oldest first
    playback_queue, \* AudioPipelines.playback_queue, oldest first
    play_guard,     \* asyncio.Event: the speaker is producing output
    stop_event,     \* asyncio.Event: the session is to stop
    listen_pc,      \* capture loop: "opening" | "reading" | "done" | "cancelled"
    send_pc,        \* transmit loop: "get" | "sending" | "done" | "cancelled"
    sending,        \* the frame send_realtime_input is sending, or 0
    play_pc,        \* playback loop: "opening" | "get" | "writing" | "done"
                    \* | "cancelled"
    playing,        \* the chunk speaker_stream.write is writing, or 0
    recv_pc,        \* receive loop: "receiving" | "done" | "cancelled"
    next_chunk,     \* audio chunks received; a chunk is its number
    sent_last,      \* the session: the last frame send_realtime_input was given
    h_consumed,     \* history: the transmit loop has dequeued a frame
    h_fwd,          \* history: the last capture iteration put its frame
    h_trail,        \* history: post_speech_frames > 0 when it decided to
    h_window,       \* history: frames forwarded since the detector last
                    \* went to SPEECH_ENDED, that frame counted
    h_mark,         \* history: chunks received when the last interruption came
    run_pc,         \* run(): "tasks" (in the TaskGroup) | "exited" | "closed"
    mic_stream,     \* AudioPipelines.mic_stream is set (open_mic returned)
    speaker_stream, \* AudioPipelines.speaker_stream is set
    released,       \* the devices: times each stream was closed and the
                    \* PyAudio client terminated
    escaped,        \* tasks that ended with an exception other than a
                    \* cancellation
    h_raised,       \* history: the calls that have raised
    current_index,  \* FormState.current_index
    answers,        \* FormState.answers: field_id -> value
    validation_errors,  \* FormState.validation_errors: field_id -> message
    tool_pc,        \* handle_tool_calls: "idle" | "handling" | "returned"
                    \* | "raised"
    tool_total,     \* len(tool_call.function_calls) of the batch in hand
    responses,      \* handle_tool_calls' local list
    h_calls,        \* history: the names of the calls handled, in order
    h_messages,     \* history: what send_tool_response was given, per call
                    \* of it by the handle_tool_calls in hand
    h_op,           \* history: the last FormState operation or tool call
    h_events,       \* history: the events the operation or batch in hand has
                    \* given to the emitter, in order
    queue_subscribers,      \* EventEmitter._queue_subscribers
    callable_subscribers,   \* EventEmitter._callable_subscribers: the
                            \* (callback, loop) pairs
    queue_items,    \* each subscriber queue's items, oldest first
    loop_running,   \* each event loop's is_running()
    ready,          \* each event loop's scheduled callback runs, in the
                    \* order it will start them
    h_enqueued,     \* history: the events each queue was given, in order
    h_received,     \* history: the events each callback subscriber was
                    \* run with and the thread each run was on, in order
    h_broadcast,    \* history: the events broadcast to a subscriber, in order
    h_emit,         \* history: the emit or emit_sync call of the last step
    webrtc_vad,     \* VoiceActivityDetector.vad is set (the WebRTC classifier)
    h_frame,        \* the process_frame call on raw bytes: the frame given,
                    \* the frame classified and the outcome
    _is_running,    \* VoicePipelineRunner._is_running
    _current_session_id,    \* VoicePipelineRunner._current_session_id
    launched,       \* pipeline threads started; a thread is its number
    alive,          \* the pipeline threads that have not terminated
    start_pc,       \* start(): "idle" | "started" (its thread is started,
                    \* `self._is_running = True` not yet run)
    h_runner,       \* history: the last start() or stop() and what it
                    \* returned
    sessions,       \* server.sessions[session_id]: the server's FormState
    h_saved,        \* history: the session's FormState at each field_saved
                    \* it emitted, in order
    h_synced,       \* history: field_saved events the server has handled
    emit_pc,        \* emit_sync: "idle" | "for" (before the queues' loop)
                    \* | "queues" (in it) | "callbacks" | "returned"
                    \* | "raised"
    iter_used,      \* the set iterator in hand: the set's size when made
    iter_left,      \* the set iterator in hand: the entries not yet yielded
    connections,    \* WebSocket connections accepted; a connection's queue
                    \* is its number
    h_stayed        \* history: the queues subscribed since the emit_sync in
                    \* hand began

vadVars == <<vad, now, h_called, h_prev, h_ret, h_dur, h_run, h_sil>>

capVars == <<captured, pre_speech_buffer, is_currently_speaking,
             post_speech_frames, listen_pc, h_fwd, h_trail, h_window>>

micVars == <<mic_queue, send_pc, sending, sent_last, h_consumed>>

playVars == <<playback_queue, play_guard, play_pc, playing, recv_pc,
              next_chunk, h_mark>>

runVars == <<run_pc, mic_stream, speaker_stream, released, escaped, h_raised>>

formVars == <<current_index, answers, validation_errors, tool_pc, tool_total,
              responses, h_calls, h_messages, h_op, h_events>>

eventVars == <<queue_subscribers, callable_subscribers, queue_items,
               loop_running, ready, h_enqueued, h_received, h_broadcast,
               h_emit>>

pipeVars == <<vadVars, capVars, micVars, playVars, stop_event, runVars>>

frameVars == <<webrtc_vad, h_frame>>

runnerVars == <<_is_running, _current_session_id, launched, alive, start_pc,
                h_runner>>

mirrorVars == <<sessions, h_saved, h_synced>>

iterVars == <<emit_pc, iter_used, iter_left, connections, h_stayed>>

otherVars == <<frameVars, runnerVars, mirrorVars, iterVars>>

vars == <<vadVars, capVars, micVars, playVars, stop_event, runVars, formVars,
          eventVars, otherVars>>

----------------------------------------------------------------------------
(* VoiceActivityDetector                                                   *)

\* collections.deque(maxlen=n).append(x)
deque_append(dq, x, maxlen) ==
    IF maxlen = 0 THEN <<>>
    ELSE IF Len(dq) >= maxlen THEN Append(Tail(dq), x)
    ELSE Append(dq, x)

\* all(window) over a window of booleans
all(dq) == \A i \in 1..Len(dq) : dq[i]

any(dq) == \E i \in 1..Len(dq) : dq[i]

\* __init__: state tracking and timing
VoiceActivityDetector ==
    [state |-> SILENCE,
     speech_frames |-> <<>>,
     silence_frames |-> <<>>,
     speech_start_time |-> None,
     last_speech_time |-> None]

reset_keeping_windows(v) ==
    [v EXCEPT !.state = SILENCE,
              !.speech_start_time = None,
              !.last_speech_time = None]

\* reset()
reset(v) ==
    [v EXCEPT !.state = SILENCE,
              !.speech_frames = <<>>,
              !.silence_frames = <<>>,
              !.speech_start_time = None,
              !.last_speech_time = None]

start_triggered_any(sf) ==
    Len(sf) = speech_start_frames /\ any(sf)

\* enough consecutive speech frames to start
start_triggered(sf) ==
    Len(sf) = speech_start_frames /\ all(sf)

end_triggered_any(sl) ==
    Len(sl) = speech_end_frames /\ any(sl)

\* enough consecutive silence frames to end
end_triggered(sl) ==
    Len(sl) = speech_end_frames /\ all(sl)

\* current_time - (self.speech_start_time or current_time)
speech_duration(v, current_time) ==
    current_time - (IF v.speech_start_time = None THEN current_time
                    ELSE v.speech_start_time)

min_reached_always(d) == TRUE

\* speech_duration >= min_speech_duration
min_reached(d) == d >= min_speech_duration

max_exceeded_ms(d) == d > max_speech_duration * 1000

\* speech_duration > max_speech_duration
max_exceeded(d) == d > max_speech_duration

\* process_frame(audio_frame), the classifier's verdict is_speech and the
\* clock reading current_time being its inputs; the result is the detector
\* after the call, whose state is the value returned.
process_frame(v, is_speech, current_time) ==
    LET sf == deque_append(v.speech_frames, is_speech, speech_start_frames)
        sl == IF v.state = SPEAKING
              THEN deque_append(v.silence_frames, ~is_speech, speech_end_frames)
              ELSE v.silence_frames
        v1 == [v EXCEPT !.speech_frames = sf, !.silence_frames = sl]
    IN  IF v.state = SILENCE
        THEN IF start_triggered(sf)
             THEN [v1 EXCEPT !.state = SPEAKING,
                             !.speech_start_time = current_time,
                             !.last_speech_time = current_time,
                             !.silence_frames = <<>>]
             ELSE v1
        ELSE IF v.state = SPEAKING
        THEN LET v2 == IF is_speech
                       THEN [v1 EXCEPT !.last_speech_time = current_time]
                       ELSE v1
                 d == speech_duration(v, current_time)
             IN  IF max_exceeded(d)
                 THEN [v2 EXCEPT !.state = SPEECH_ENDED]
                 ELSE IF end_triggered(sl)
                 THEN IF min_reached(d)
                      THEN [v2 EXCEPT !.state = SPEECH_ENDED]
                      ELSE reset(v2)
                 ELSE v2
        ELSE v1

\* The history of one process_frame call; was_reset: the caller reset the
\* detector right after it.
ObserveWith(v, after, is_speech, current_time, was_reset) ==
    /\ h_called' = ~was_reset
    /\ h_prev' = v.state
    /\ h_ret' = after.state
    /\ h_dur' = IF v.state = SPEAKING THEN speech_duration(v, current_time) ELSE 0
    /\ h_run' = IF was_reset \/ ~is_speech THEN 0
                ELSE IF h_run < speech_start_frames THEN h_run + 1 ELSE h_run
    /\ h_sil' = IF was_reset \/ v.state # SPEAKING \/ is_speech THEN 0
                ELSE IF h_sil < speech_end_frames THEN h_sil + 1 ELSE h_sil

Observe(v, is_speech, current_time) ==
    ObserveWith(v, process_frame(v, is_speech, current_time), is_speech,
                current_time, FALSE)

\* The history after reset().
Forget ==
    /\ h_called' = FALSE
    /\ h_prev' = SILENCE
    /\ h_ret' = SILENCE
    /\ h_dur' = 0
    /\ h_run' = 0
    /\ h_sil' = 0

VadInit ==
    /\ vad = VoiceActivityDetector
    /\ now = 1
    /\ h_called = FALSE
    /\ h_prev = SILENCE
    /\ h_ret = SILENCE
    /\ h_dur = 0
    /\ h_run = 0
    /\ h_sil = 0

\* One process_frame call on a frame the classifier judges is_speech, dt
\* ticks after the previous clock reading.
VadFrame ==
    \E is_speech \in BOOLEAN, dt \in 0..MaxDt :
        /\ now + dt <= MaxClock
        /\ now' = now + dt
        /\ vad' = process_frame(vad, is_speech, now + dt)
        /\ Observe(vad, is_speech, now + dt)
        /\ UNCHANGED <<capVars, micVars, playVars, stop_event>>
    /\ UNCHANGED <<runVars, formVars, eventVars, otherVars>>

\* A caller's reset().
VadReset ==
    /\ vad' = reset(vad)
    /\ Forget
    /\ UNCHANGED <<now, capVars, micVars, playVars, stop_event>>
    /\ UNCHANGED <<runVars, formVars, eventVars, otherVars>>

----------------------------------------------------------------------------
(* AudioPipelines and the loops over its two queues                        *)

put_nowait_drop_oldest(q, x, maxsize) ==
    IF maxsize > 0 /\ Len(q) >= maxsize THEN Append(Tail(q), x) ELSE Append(q, x)

\* try: queue.put_nowait(x) / except asyncio.QueueFull: log. A full queue
\* keeps what it holds and the new item is dropped; maxsize <= 0 is unbounded.
put_nowait(q, x, maxsize) ==
    IF maxsize > 0 /\ Len(q) >= maxsize THEN q ELSE Append(q, x)

RECURSIVE put_all(_, _, _)
\* for item in items: put_nowait(item), QueueFull caught per item
put_all(q, items, maxsize) ==
    IF items = <<>> THEN q
    ELSE put_all(put_nowait(q, Head(items), maxsize), Tail(items), maxsize)

RECURSIVE reversed(_)
reversed(items) ==
    IF items = <<>> THEN <<>> ELSE Append(reversed(Tail(items)), Head(items))

flush_buffer_reversed(q, buf) == put_all(q, reversed(buf), mic_queue_maxsize)

\* speech just started: the buffered context goes to the queue first
flush_buffer(q, buf) == put_all(q, buf, mic_queue_maxsize)

\* pre_speech_buffer.append(data); pop(0) when over max_buffer_size
buffer_append(buf, x) ==
    LET b == Append(buf, x)
    IN  IF Len(b) > max_buffer_size THEN Tail(b) ELSE b

\* the chunks next_chunk+1 .. next_chunk+n, in order
chunks(first, n) == [i \in 1..n |-> first + i]

drain_one(q) == IF q = <<>> THEN q ELSE Tail(q)

\* while not playback_queue.empty(): playback_queue.get_nowait()
drain(q) == <<>>

suppressed_never(guard) == FALSE

\* if play_guard.is_set(): drop the chunk and continue
suppressed(guard) == guard

queue_empty_always(q) == TRUE

queue_empty_never(q) == FALSE

\* playback_queue.empty()
queue_empty(q) == q = <<>>

\* `while not stop_event.is_set()` as a loop reaches its head again
loop_head(stopped, running) == IF stopped THEN "done" ELSE running

\* AudioPipelines.__post_init__ and run(): empty queues, clear events, the
\* four tasks created and each at its first await.
PipeInit ==
    /\ captured = 0
    /\ pre_speech_buffer = <<>>
    /\ is_currently_speaking = FALSE
    /\ post_speech_frames = 0
    /\ mic_queue = <<>>
    /\ playback_queue = <<>>
    /\ play_guard = FALSE
    /\ stop_event = FALSE
    /\ listen_pc = "reading"
    /\ send_pc = "get"
    /\ sending = 0
    /\ play_pc = "get"
    /\ playing = 0
    /\ recv_pc = "receiving"
    /\ next_chunk = 0
    /\ sent_last = 0
    /\ h_consumed = FALSE
    /\ h_fwd = FALSE
    /\ h_trail = FALSE
    /\ h_window = 0
    /\ h_mark = 0
    /\ run_pc = "tasks"
    /\ mic_stream = TRUE
    /\ speaker_stream = TRUE
    /\ released = [mic |-> 0, speaker |-> 0, pya |-> 0]
    /\ escaped = {}
    /\ h_raised = {}

\* client.listen_to_microphone: one iteration, from the read's return to the
\* next read (or the loop's exit).
listen_to_microphone ==
    /\ listen_pc = "reading"
    /\ captured < MaxFrames
    /\ \E is_speech \in BOOLEAN, dt \in 0..MaxDt :
        \E v1 \in {process_frame(vad, is_speech, now + dt)} :
        LET frame == captured + 1
            starting == v1.state = SPEAKING /\ ~is_currently_speaking
            speaking1 == starting \/ is_currently_speaking
            post1 == IF starting THEN 0 ELSE post_speech_frames
            ending == v1.state = SPEECH_ENDED /\ speaking1
            speaking2 == speaking1 /\ ~ending
            post2 == IF ending THEN 1 ELSE post1
            send == speaking2 \/ post2 > 0
            post3 == IF send /\ post2 > 0 THEN post2 + 1 ELSE post2
            finished == send /\ post2 > 0 /\ post3 >= max_post_speech_frames
        IN  \E q1 \in {IF starting
                       THEN flush_buffer(mic_queue, pre_speech_buffer)
                       ELSE mic_queue},
               buf1 \in {IF starting THEN <<>> ELSE pre_speech_buffer} :
            /\ now + dt <= MaxClock
            /\ now' = now + dt
            /\ captured' = frame
            /\ vad' = IF finished THEN reset(v1) ELSE v1
            /\ mic_queue' = IF send THEN put_nowait(q1, frame, mic_queue_maxsize)
                            ELSE q1
            /\ pre_speech_buffer' = IF send THEN buf1
                                    ELSE buffer_append(buf1, frame)
            /\ is_currently_speaking' = speaking2
            /\ post_speech_frames' = IF finished THEN 0 ELSE post3
            /\ h_fwd' = send
            /\ h_trail' = (post2 > 0)
            /\ h_window' = IF post2 = 0 THEN 0
                           ELSE IF ending THEN 1 ELSE h_window + 1
            /\ ObserveWith(vad, v1, is_speech, now + dt, finished)
    /\ listen_pc' = loop_head(stop_event, "reading")
    /\ UNCHANGED <<send_pc, sending, sent_last, h_consumed, playVars, stop_event>>
    /\ UNCHANGED <<runVars, formVars, eventVars, otherVars>>

\* app.session.listen_to_microphone: one iteration, no detector
listen_to_microphone_app ==
    /\ listen_pc = "reading"
    /\ captured < MaxFrames
    /\ captured' = captured + 1
    /\ mic_queue' = put_nowait(mic_queue, captured + 1, mic_queue_maxsize)
    /\ h_fwd' = TRUE
    /\ h_trail' = FALSE
    /\ h_window' = 0
    /\ listen_pc' = loop_head(stop_event, "reading")
    /\ UNCHANGED <<vadVars, pre_speech_buffer, is_currently_speaking,
                   post_speech_frames, send_pc, sending, sent_last, h_consumed,
                   playVars, stop_event>>
    /\ UNCHANGED <<runVars, formVars, eventVars, otherVars>>

caught_but_tool_calls(point) ==
    point \in {"mic_read", "send", "receive", "speaker_write"}

\* The calls a loop makes inside a try whose `except Exception` sets
\* stop_event; open_mic and open_speaker are awaited before the try.
caught(point) ==
    point \in {"mic_read", "send", "receive", "tool_call", "speaker_write"}

\* The call at `point` of `task` raises: the except clause, if one encloses
\* the call, logs and sets stop_event; else the exception ends the task.
fails(task, point) ==
    /\ h_raised' = h_raised \cup {point}
    /\ stop_event' = (stop_event \/ caught(point))
    /\ escaped' = IF caught(point) THEN escaped ELSE escaped \cup {task}
    /\ UNCHANGED <<run_pc, mic_stream, speaker_stream, released>>

\* mic_stream.read raises: logged, stop_event set, the loop left
listen_failed ==
    /\ listen_pc = "reading"
    /\ fails("listen", "mic_read")
    /\ listen_pc' = "done"
    /\ UNCHANGED <<vadVars, captured, pre_speech_buffer, is_currently_speaking,
                   post_speech_frames, h_fwd, h_trail, h_window, micVars,
                   playVars>>
    /\ UNCHANGED <<formVars, eventVars, otherVars>>

\* send_realtime_audio: mic_queue.get() returns a frame; it is dropped under
\* the playback guard, else handed to session.send_realtime_input.
send_realtime_audio_get ==
    /\ send_pc = "get"
    /\ mic_queue # <<>>
    /\ mic_queue' = Tail(mic_queue)
    /\ h_consumed' = TRUE
    /\ IF suppressed(play_guard)
       THEN /\ send_pc' = loop_head(stop_event, "get")
            /\ UNCHANGED <<sending, sent_last>>
       ELSE /\ send_pc' = "sending"
            /\ sending' = Head(mic_queue)
            /\ sent_last' = Head(mic_queue)
    /\ UNCHANGED <<vadVars, capVars, playVars, stop_event>>
    /\ UNCHANGED <<runVars, formVars, eventVars, otherVars>>

\* send_realtime_audio: send_realtime_input returns, or raises (stop_event set)
send_realtime_audio_sent ==
    /\ send_pc = "sending"
    /\ \E ok \in BOOLEAN :
        IF ok
        THEN /\ send_pc' = loop_head(stop_event, "get")
             /\ UNCHANGED <<stop_event, runVars>>
        ELSE /\ send_pc' = "done"
             /\ fails("send", "send")
    /\ sending' = 0
    /\ UNCHANGED <<vadVars, capVars, mic_queue, sent_last, h_consumed, playVars>>
    /\ UNCHANGED <<formVars, eventVars, otherVars>>

\* play_audio: playback_queue.get() returns a chunk; the guard is set and the
\* write handed to a worker thread.
play_audio_get ==
    /\ play_pc = "get"
    /\ playback_queue # <<>>
    /\ playing' = Head(playback_queue)
    /\ playback_queue' = Tail(playback_queue)
    /\ play_guard' = TRUE
    /\ play_pc' = "writing"
    /\ UNCHANGED <<vadVars, capVars, micVars, recv_pc, next_chunk, h_mark,
                   stop_event>>
    /\ UNCHANGED <<runVars, formVars, eventVars, otherVars>>

\* play_audio: the write returns or raises; finally: the guard is cleared if
\* the queue is empty; a raise sets stop_event and leaves the loop.
play_audio_written ==
    /\ play_pc = "writing"
    /\ play_guard' = IF queue_empty(playback_queue) THEN FALSE ELSE play_guard
    /\ playing' = 0
    /\ \E ok \in BOOLEAN :
        IF ok
        THEN /\ play_pc' = loop_head(stop_event, "get")
             /\ UNCHANGED <<stop_event, runVars>>
        ELSE /\ play_pc' = "done"
             /\ fails("play", "speaker_write")
    /\ UNCHANGED <<vadVars, capVars, micVars, playback_queue, recv_pc,
                   next_chunk, h_mark>>
    /\ UNCHANGED <<formVars, eventVars, otherVars>>

\* receive_from_model: one message with server_content, interrupted or not,
\* whose model_turn carries n audio parts, in a run of at most `limit` parts;
\* each part is put with playback_queue.put_nowait.
receive_of(limit, interrupted, n) ==
    /\ recv_pc = "receiving"
    /\ next_chunk + n <= limit
    /\ play_guard' = IF interrupted THEN FALSE ELSE play_guard
    /\ playback_queue' =
            put_all(IF interrupted THEN drain(playback_queue)
                    ELSE playback_queue,
                    chunks(next_chunk, n), playback_queue_maxsize)
    /\ next_chunk' = next_chunk + n
    /\ h_mark' = IF interrupted THEN next_chunk ELSE h_mark
    /\ UNCHANGED <<vadVars, capVars, micVars, play_pc, playing, recv_pc,
                   stop_event>>
    /\ UNCHANGED <<runVars, formVars, eventVars, otherVars>>

receive(interrupted, n) == receive_of(MaxChunks, interrupted, n)

receive_from_model_message ==
    \E interrupted \in BOOLEAN, n \in 0..MaxParts : receive(interrupted, n)

\* A message of a session that delivers up to MaxBacklog parts
receive_from_model_backlog ==
    \E interrupted \in BOOLEAN, n \in 0..MaxParts :
        receive_of(MaxBacklog, interrupted, n)

\* receive_from_model: the response stream raises, or handle_tool_calls
\* does while a message of it is handled
receive_from_model_failed ==
    /\ recv_pc = "receiving"
    /\ \E point \in {"receive", "tool_call"} : fails("receive", point)
    /\ recv_pc' = "done"
    /\ UNCHANGED <<vadVars, capVars, micVars, playback_queue, play_guard,
                   play_pc, playing, next_chunk, h_mark>>
    /\ UNCHANGED <<formVars, eventVars, otherVars>>

\* receive_from_model: session.receive() is exhausted (the turn is over) and
\* the outer loop reaches its head
receive_from_model_turn_end ==
    /\ recv_pc = "receiving"
    /\ stop_event
    /\ recv_pc' = "done"
    /\ UNCHANGED <<vadVars, capVars, micVars, playback_queue, play_guard,
                   play_pc, playing, next_chunk, h_mark, stop_event>>
    /\ UNCHANGED <<runVars, formVars, eventVars, otherVars>>

\* The capture loop's failure and the transmit loop
MicLoops ==
    \/ listen_failed
    \/ send_realtime_audio_get
    \/ send_realtime_audio_sent

\* The playback and receive loops
PlayLoops ==
    \/ play_audio_get
    \/ play_audio_written
    \/ receive_from_model_message
    \/ receive_from_model_failed
    \/ receive_from_model_turn_end

\* What play_audio and receive_from_model do to the two events, as the capture
\* and transmit loops see it: the guard set (play_audio before a write), the
\* guard cleared (play_audio after a write, receive_from_model on an
\* interruption), stop_event set (either loop failing). Every interleaving
\* of the two loops with the others is among these steps taken at any time.
play_guard_set ==
    /\ ~play_guard
    /\ play_guard' = TRUE
    /\ UNCHANGED <<vadVars, capVars, micVars, playback_queue, play_pc, playing,
                   recv_pc, next_chunk, h_mark, stop_event>>
    /\ UNCHANGED <<runVars, formVars, eventVars, otherVars>>

play_guard_clear ==
    /\ play_guard
    /\ play_guard' = FALSE
    /\ UNCHANGED <<vadVars, capVars, micVars, playback_queue, play_pc, playing,
                   recv_pc, next_chunk, h_mark, stop_event>>
    /\ UNCHANGED <<runVars, formVars, eventVars, otherVars>>

play_or_receive_failed ==
    /\ ~stop_event
    /\ stop_event' = TRUE
    /\ UNCHANGED <<vadVars, capVars, micVars, playVars>>
    /\ UNCHANGED <<runVars, formVars, eventVars, otherVars>>

PlayEvents ==
    \/ play_guard_set
    \/ play_guard_clear
    \/ play_or_receive_failed

----------------------------------------------------------------------------
(* client.run(): the four loops as tasks of one TaskGroup, and the cleanup  *)

\* run() up to the TaskGroup: AudioPipelines() with no stream open, the
\* events clear, the tasks created and each at its first statement.
RunInit ==
    /\ captured = 0
    /\ pre_speech_buffer = <<>>
    /\ is_currently_speaking = FALSE
    /\ post_speech_frames = 0
    /\ mic_queue = <<>>
    /\ playback_queue = <<>>
    /\ play_guard = FALSE
    /\ stop_event = FALSE
    /\ listen_pc = "opening"
    /\ send_pc = "get"
    /\ sending = 0
    /\ play_pc = "opening"
    /\ playing = 0
    /\ recv_pc = "receiving"
    /\ next_chunk = 0
    /\ sent_last = 0
    /\ h_consumed = FALSE
    /\ h_fwd = FALSE
    /\ h_trail = FALSE
    /\ h_window = 0
    /\ h_mark = 0
    /\ run_pc = "tasks"
    /\ mic_stream = FALSE
    /\ speaker_stream = FALSE
    /\ released = [mic |-> 0, speaker |-> 0, pya |-> 0]
    /\ escaped = {}
    /\ h_raised = {}

\* listen_to_microphone: await audio.open_mic(), before the try
open_mic ==
    /\ listen_pc = "opening"
    /\ \E ok \in BOOLEAN :
        IF ok
        THEN /\ mic_stream' = TRUE
             /\ listen_pc' = loop_head(stop_event, "reading")
             /\ UNCHANGED <<stop_event, run_pc, speaker_stream, released,
                            escaped, h_raised>>
        ELSE /\ listen_pc' = "done"
             /\ fails("listen", "open_mic")
    /\ UNCHANGED <<vadVars, captured, pre_speech_buffer, is_currently_speaking,
                   post_speech_frames, h_fwd, h_trail, h_window, micVars,
                   playVars,
                   formVars, eventVars, otherVars>>

\* play_audio: await audio.open_speaker(), before the try
open_speaker ==
    /\ play_pc = "opening"
    /\ \E ok \in BOOLEAN :
        IF ok
        THEN /\ speaker_stream' = TRUE
             /\ play_pc' = loop_head(stop_event, "get")
             /\ UNCHANGED <<stop_event, run_pc, mic_stream, released, escaped,
                            h_raised>>
        ELSE /\ play_pc' = "done"
             /\ fails("play", "open_speaker")
    /\ UNCHANGED <<vadVars, capVars, micVars, playback_queue, play_guard,
                   playing, recv_pc, next_chunk, h_mark, formVars, eventVars,
                   otherVars>>

\* A task that has returned, raised or been cancelled
finished(pc) == pc \in {"done", "cancelled"}

\* Task.cancel() of a task that has not finished: CancelledError is raised
\* at its await, which no `except Exception` catches.
cancel(pc) == IF finished(pc) THEN pc ELSE "cancelled"

\* async with asyncio.TaskGroup(): the block is left once every task has
\* finished. A task that ended with an exception makes the group cancel the
\* others; the exception group is caught by `except*`, which sets
\* stop_event. play_audio's finally runs when its write is cancelled.
task_group_exit ==
    /\ run_pc = "tasks"
    /\ IF escaped # {}
       THEN /\ listen_pc' = cancel(listen_pc)
            /\ send_pc' = cancel(send_pc)
            /\ play_pc' = cancel(play_pc)
            /\ recv_pc' = cancel(recv_pc)
            /\ play_guard' = IF play_pc = "writing" /\ queue_empty(playback_queue)
                             THEN FALSE ELSE play_guard
            /\ stop_event' = TRUE
       ELSE /\ finished(listen_pc) /\ finished(send_pc)
            /\ finished(play_pc) /\ finished(recv_pc)
            /\ UNCHANGED <<listen_pc, send_pc, play_pc, recv_pc, play_guard,
                           stop_event>>
    /\ run_pc' = "exited"
    /\ UNCHANGED <<vadVars, captured, pre_speech_buffer, is_currently_speaking,
                   post_speech_frames, h_fwd, h_trail, h_window, mic_queue,
                   sending,
                   sent_last, h_consumed, playback_queue, playing, next_chunk,
                   h_mark, mic_stream, speaker_stream, released, escaped,
                   h_raised, formVars, eventVars, otherVars>>

closed_twice(n, stream) == IF stream THEN n + 2 ELSE n

\* AudioPipelines.close(), for one stream: closed if it is set
closed(n, stream) == IF stream THEN n + 1 ELSE n

\* run()'s finally: await audio.close(). Each stream that is set is closed
\* and the PyAudio client terminated.
close ==
    /\ run_pc = "exited"
    /\ released' = [mic |-> closed(released.mic, mic_stream),
                    speaker |-> closed(released.speaker, speaker_stream),
                    pya |-> released.pya + 1]
    /\ run_pc' = "closed"
    /\ UNCHANGED <<vadVars, capVars, micVars, playVars, stop_event, mic_stream,
                   speaker_stream, escaped, h_raised, formVars, eventVars,
                   otherVars>>

----------------------------------------------------------------------------
(* FormState and the tool-call handler                                     *)

\* field_id of ANMELDUNG_FORM_FIELDS[i], i counted from 0, is i + 1
FieldIds == 1..NumFields

\* A field_id that is not in the catalogue
UnknownId == NumFields + 1

index_of(field_id) == field_id - 1

\* Values a caller passes: two a field's validator accepts, one it rejects
Values == {"old", "new", "bad"}

\* app.validation.validate_field: is_valid of its result
validate_field(field, value) == value # "bad"

\* FormState(): the dataclass defaults
FormState ==
    [current_index |-> 0,
     answers |-> [id \in {} |-> ""],
     validation_errors |-> [id \in {} |-> ""]]

\* d[k] = v on a dict
dict_set(d, k, v) == [x \in (DOMAIN d) \cup {k} |-> IF x = k THEN v ELSE d[x]]

\* d.pop(k, None) on a dict
dict_pop(d, k) == [x \in (DOMAIN d) \ {k} |-> d[x]]

\* FormState.current_field: the field at current_index, or None
current_field(fs) ==
    IF fs.current_index < NumFields THEN fs.current_index + 1 ELSE None

advance_saturating(fs) ==
    IF fs.current_index < NumFields
    THEN [fs EXCEPT !.current_index = @ + 1] ELSE fs

\* FormState.advance: the state it leaves (it returns current_field())
advance(fs) == [fs EXCEPT !.current_index = @ + 1]

is_complete_at_end(fs) == fs.current_index = NumFields

\* FormState.is_complete
is_complete(fs) == fs.current_index >= NumFields

record_value_keeps_error(fs, field_id, value) ==
    [fs EXCEPT !.answers = dict_set(@, field_id, value)]

\* FormState.record_value
record_value(fs, field_id, value) ==
    [fs EXCEPT !.answers = dict_set(@, field_id, value),
               !.validation_errors = dict_pop(@, field_id)]

\* FormState.set_error
set_error(fs, field_id, message) ==
    [fs EXCEPT !.validation_errors = dict_set(@, field_id, message)]

len(d) == Cardinality(DOMAIN d)

progress_percent_by_index(fs) ==
    IF NumFields = 0 THEN 100
    ELSE IF fs.current_index >= NumFields THEN 100
         ELSE (fs.current_index * 100) \div NumFields

\* FormState.progress_percent: min(100.0, len(answers) / total * 100), its
\* integer part (the float is 100.0 exactly when len(answers) >= total)
progress_percent(fs) ==
    IF NumFields = 0 THEN 100
    ELSE IF len(fs.answers) >= NumFields THEN 100
         ELSE (len(fs.answers) * 100) \div NumFields

----------------------------------------------------------------------------
(* api.events: FormEvent and the EventEmitter singleton                    *)

\* The event loops, each the loop of the thread of its name: the web
\* server's, and the voice session's worker thread's
Loops == {"server", "session"}

\* The asyncio.Queue the server subscribes for a WebSocket connection
Queues == {"ws_queue"}

\* Callables a caller subscribes: an `async def` and a plain function
Callbacks == {"on_event", "on_event_plain"}

\* asyncio.iscoroutinefunction(callback)
iscoroutinefunction(callback) == callback = "on_event"

\* The loops subscribe() is awaited on: api.server's lifespan and WebSocket
\* handler are its only callers
SubscriberLoops == {"server"}

\* An entry of _callable_subscribers: the callback and the loop that was
\* running when subscribe() stored it
Subscribers == [cb : Callbacks, loop : SubscriberLoops]

\* FormEvent(type, data): of data, the field_id, value, is_valid and
\* progress_percent keys (None, "", TRUE and 0 where data has no such key)
FormEvent(type, field_id, value, is_valid, progress) ==
    [type |-> type, field_id |-> field_id, value |-> value,
     is_valid |-> is_valid, progress |-> progress]

\* The sequences that hold each element of S once
Orders(S) ==
    {o \in [1..Cardinality(S) -> S] :
        \A i, j \in 1..Cardinality(S) : i # j => o[i] # o[j]}

\* _invoke_callback_sync: where the callback's run goes. A coroutine
\* function goes to the subscriber's loop if that is running and is given
\* up otherwise; a plain function is called where emit_sync runs.
invoke_callback_sync(sub) ==
    IF iscoroutinefunction(sub.cb)
    THEN IF loop_running[sub.loop] THEN sub.loop ELSE "nowhere"
    ELSE "inline"

\* _invoke_callback: where the callback's run goes, current_loop being the
\* loop emit() runs on. A coroutine function goes to the subscriber's loop
\* if that is another loop and is running, to a task of current_loop
\* otherwise; a plain function is called where emit runs.
invoke_callback(sub, current_loop) ==
    IF iscoroutinefunction(sub.cb)
    THEN IF sub.loop # current_loop /\ loop_running[sub.loop]
         THEN sub.loop ELSE current_loop
    ELSE "inline"

\* Where fn ("emit" | "emit_sync"), running on `thread`, sends sub's run
target(fn, sub, thread) ==
    IF fn = "emit_sync" THEN invoke_callback_sync(sub)
    ELSE invoke_callback(sub, thread)

isolated_but_callbacks(failure) ==
    failure \in {"QueueFull", "loop not running"}

\* emit and emit_sync: the failures of a delivery that the try around it
\* catches and logs (`except asyncio.QueueFull`, `except Exception`), the
\* warning of _invoke_callback_sync being no exception at all
isolated(failure) ==
    failure \in {"QueueFull", "loop not running", "callback raised"}

call_first(scheduled, entries) == entries \o scheduled

\* loop.call_soon_threadsafe / loop.create_task: the loop starts what it
\* was given in the order it was given it
call_soon(scheduled, entries) == scheduled \o entries

\* No emit or emit_sync ran in the step
NoEmit ==
    [fn |-> "none", thread |-> "", events |-> <<>>, raised |-> FALSE,
     inline |-> {}, dropped |-> {}, failed |-> {}]

\* emit(event) / emit_sync(event) on `thread` with a subscriber present:
\* put_nowait on each queue, then each callable's run sent to its target.
\* `raising` are the plain callbacks whose call raises, `order` the order
\* the set of callables is iterated in.
broadcast(fn, thread, event, raising, order) ==
    LET full == {q \in queue_subscribers :
                    Len(queue_items[q]) >= event_queue_maxsize}
        inline == {s \in callable_subscribers :
                    target(fn, s, thread) = "inline"}
        nowhere == {s \in callable_subscribers :
                    target(fn, s, thread) = "nowhere"}
        failures == (IF full # {} THEN {"QueueFull"} ELSE {})
                    \cup (IF nowhere # {} THEN {"loop not running"} ELSE {})
                    \cup (IF raising # {} THEN {"callback raised"} ELSE {})
        entries(loop) ==
            LET mine(s) == target(fn, s, thread) = loop
                picked == SelectSeq(order, mine)
            IN  [i \in 1..Len(picked) |-> [sub |-> picked[i], event |-> event]]
    IN  /\ queue_items' =
            [q \in Queues |->
                IF q \in queue_subscribers
                THEN put_nowait(queue_items[q], event, event_queue_maxsize)
                ELSE queue_items[q]]
        /\ h_enqueued' =
            [q \in Queues |->
                IF q \in queue_subscribers \ full
                THEN Append(h_enqueued[q], event) ELSE h_enqueued[q]]
        /\ ready' = [loop \in Loops |-> call_soon(ready[loop], entries(loop))]
        /\ h_received' =
            [s \in Subscribers |->
                IF s \in inline
                THEN Append(h_received[s], [event |-> event, thread |-> thread])
                ELSE h_received[s]]
        /\ h_broadcast' = Append(h_broadcast, event)
        /\ h_emit' = [fn |-> fn, thread |-> thread, events |-> <<event>>,
                      raised |-> \E f \in failures : ~isolated(f),
                      inline |-> inline, dropped |-> full,
                      failed |-> nowhere \cup raising]
        /\ UNCHANGED <<queue_subscribers, callable_subscribers, loop_running>>

\* The caller gives `events`, none or one, to emit or emit_sync; with no
\* subscriber the emitter returns at once
emits(fn, thread, events) ==
    IF events = <<>>
    THEN /\ h_emit' = NoEmit
         /\ UNCHANGED <<queue_subscribers, callable_subscribers, queue_items,
                        loop_running, ready, h_enqueued, h_received,
                        h_broadcast>>
    ELSE IF queue_subscribers = {} /\ callable_subscribers = {}
    THEN /\ h_emit' = [NoEmit EXCEPT !.fn = fn, !.thread = thread,
                                     !.events = events]
         /\ UNCHANGED <<queue_subscribers, callable_subscribers, queue_items,
                        loop_running, ready, h_enqueued, h_received,
                        h_broadcast>>
    ELSE \E order \in Orders(callable_subscribers) :
         \E raising \in SUBSET {s \in callable_subscribers :
                                   ~iscoroutinefunction(s.cb)} :
            broadcast(fn, thread, events[1], raising, order)

\* EventEmitter(): no subscriber; both loops run
EventInit ==
    /\ queue_subscribers = {}
    /\ callable_subscribers = {}
    /\ queue_items = [q \in Queues |-> <<>>]
    /\ loop_running = [loop \in Loops |-> TRUE]
    /\ ready = [loop \in Loops |-> <<>>]
    /\ h_enqueued = [q \in Queues |-> <<>>]
    /\ h_received = [s \in Subscribers |-> <<>>]
    /\ h_broadcast = <<>>
    /\ h_emit = NoEmit

----------------------------------------------------------------------------
(* The FormState's callers: methods, the REST update, handle_tool_calls    *)

\* The FormState object the variables hold
form_state ==
    [current_index |-> current_index,
     answers |-> answers,
     validation_errors |-> validation_errors]

\* The object is left as fs
becomes(fs) ==
    /\ current_index' = fs.current_index
    /\ answers' = fs.answers
    /\ validation_errors' = fs.validation_errors

\* What h_op records of an operation
op(name, field_id, value, had_error) ==
    [name |-> name, id |-> field_id, value |-> value, had_error |-> had_error]

FormInit ==
    /\ current_index = FormState.current_index
    /\ answers = FormState.answers
    /\ validation_errors = FormState.validation_errors
    /\ tool_pc = "idle"
    /\ tool_total = 0
    /\ responses = <<>>
    /\ h_calls = <<>>
    /\ h_messages = <<>>
    /\ h_op = op("FormState", None, "", FALSE)
    /\ h_events = <<>>

\* A caller other than handle_tool_calls has the object: no batch is in hand
ToolForget ==
    /\ tool_pc # "handling"
    /\ tool_pc' = "idle"
    /\ tool_total' = 0
    /\ responses' = <<>>
    /\ h_calls' = <<>>
    /\ h_messages' = <<>>

\* A FormState method gives the emitter nothing
method_call ==
    /\ ToolForget
    /\ h_events' = <<>>
    /\ emits("none", "", <<>>)

\* A caller's form_state.current_field()
call_current_field ==
    /\ method_call
    /\ h_op' = op("current_field", current_field(form_state), "", FALSE)
    /\ UNCHANGED <<current_index, answers, validation_errors, pipeVars,
                   otherVars>>

\* A caller's form_state.advance()
call_advance ==
    /\ method_call
    /\ current_index < NumFields + MaxOver
    /\ becomes(advance(form_state))
    /\ h_op' = op("advance", None, "", FALSE)
    /\ UNCHANGED <<pipeVars, otherVars>>

\* A caller's form_state.record_value(field_id, value)
call_record_value ==
    /\ method_call
    /\ \E field_id \in FieldIds, value \in Values :
        /\ becomes(record_value(form_state, field_id, value))
        /\ h_op' = op("record_value", field_id, value,
                      field_id \in DOMAIN validation_errors)
    /\ UNCHANGED <<pipeVars, otherVars>>

\* A caller's form_state.set_error(field_id, message)
call_set_error ==
    /\ method_call
    /\ \E field_id \in FieldIds :
        /\ becomes(set_error(form_state, field_id, "invalid"))
        /\ h_op' = op("set_error", field_id, "",
                      field_id \in DOMAIN validation_errors)
    /\ UNCHANGED <<pipeVars, otherVars>>

\* api.server.update_field: PUT /api/session/{session_id}/field/{field_id},
\* a coroutine of the server's loop. An unknown field is a 404; a value the
\* validator accepts is recorded and a field_updated event emitted.
update_field ==
    /\ ToolForget
    /\ loop_running["server"]
    /\ \E field_id \in FieldIds \cup {UnknownId}, value \in Values :
        \E ok \in {(field_id \in FieldIds) /\ validate_field(field_id, value)} :
        \E fs \in {IF ok THEN record_value(form_state, field_id, value)
                   ELSE form_state} :
        \E events \in {IF ok
                       THEN <<FormEvent("field_updated", field_id, value, TRUE,
                                        progress_percent(fs))>>
                       ELSE <<>>} :
            /\ becomes(fs)
            /\ h_events' = events
            /\ emits("emit", "server", events)
            /\ h_op' = op("update_field", field_id, value,
                          field_id \in DOMAIN validation_errors)
    /\ UNCHANGED <<pipeVars, otherVars>>

\* The tools build_function_declarations declares, and one it does not
ToolNames ==
    {"get_next_form_field", "validate_form_field", "save_form_field",
     "navigate_to_field", "generate_anmeldung_pdf", "get_all_answers",
     "update_previous_field", "no_such_tool"}

\* The tools that take the session through one field
FieldTools ==
    {"get_next_form_field", "validate_form_field", "save_form_field"}

\* A branch of handle_tool_calls ends: the state left, the key of the
\* response payload and the events it gave emit_sync
tool_result(fs, reply, events) ==
    [fs |-> fs, reply |-> reply, events |-> events, raised |-> FALSE]

\* A branch of handle_tool_calls raises
tool_raises(fs) == [fs |-> fs, reply |-> "", events |-> <<>>, raised |-> TRUE]

\* handle_tool_calls, `if name == "get_next_form_field"`
get_next_form_field(fs) ==
    IF current_field(fs) = None
    THEN tool_result(fs, "done:true", <<>>)
    ELSE tool_result(fs, "done:false",
                     <<FormEvent("field_changed", current_field(fs), "", TRUE,
                                 progress_percent(fs))>>)

validate_form_field_recording(fs, value) ==
    IF current_field(fs) = None
    THEN tool_result(fs, "is_valid:false", <<>>)
    ELSE IF validate_field(current_field(fs), value)
         THEN tool_result(fs, "is_valid:true",
                          <<FormEvent("validation_result", current_field(fs),
                                      value, TRUE, 0)>>)
         ELSE tool_result(
                set_error(record_value(fs, current_field(fs), value),
                          current_field(fs), "invalid"),
                "is_valid:false",
                <<FormEvent("validation_result", current_field(fs), value,
                            FALSE, 0)>>)

\* handle_tool_calls, `elif name == "validate_form_field"`
validate_form_field(fs, value) ==
    IF current_field(fs) = None
    THEN tool_result(fs, "is_valid:false", <<>>)
    ELSE IF validate_field(current_field(fs), value)
         THEN tool_result(fs, "is_valid:true",
                          <<FormEvent("validation_result", current_field(fs),
                                      value, TRUE, 0)>>)
         ELSE tool_result(set_error(fs, current_field(fs), "invalid"),
                          "is_valid:false",
                          <<FormEvent("validation_result", current_field(fs),
                                      value, FALSE, 0)>>)

save_form_field_silent(fs, value) ==
    IF current_field(fs) = None
    THEN tool_result(fs, "ok:false", <<>>)
    ELSE tool_result(advance(record_value(fs, current_field(fs), value)),
                     "ok:true", <<>>)

\* handle_tool_calls, `elif name == "save_form_field"`: the value is
\* recorded and the form advanced without a call of validate_field
save_form_field(fs, value) ==
    IF current_field(fs) = None
    THEN tool_result(fs, "ok:false", <<>>)
    ELSE LET saved == advance(record_value(fs, current_field(fs), value))
         IN  tool_result(saved, "ok:true",
                         <<FormEvent("field_saved", current_field(fs), value,
                                     TRUE, progress_percent(saved))>>)

\* handle_tool_calls, `elif name == "generate_anmeldung_pdf"`: pdf_ok is
\* whether generating and writing the file raised nothing
generate_anmeldung_pdf(fs, pdf_ok) ==
    IF pdf_ok
    THEN tool_result(fs, "ok:true",
                     <<FormEvent("form_complete", None, "", TRUE, 0)>>)
    ELSE tool_result(fs, "ok:false", <<>>)

unhandled_tool_raises(fs, name) == tool_raises(fs)

\* handle_tool_calls, the final `else`: {"error": f"Unhandled tool {name}"}
unhandled_tool(fs, name) == tool_result(fs, "error:unhandled", <<>>)

\* handle_tool_calls: the branch taken for one func_call. FormState has no
\* navigate_to_field method: the call of it raises AttributeError. A name
\* without a branch, declared or not, gets the "Unhandled tool" response.
handle_function_call(fs, name, field_id, value, pdf_ok) ==
    IF name = "get_next_form_field" THEN get_next_form_field(fs)
    ELSE IF name = "validate_form_field" THEN validate_form_field(fs, value)
    ELSE IF name = "navigate_to_field" THEN tool_raises(fs)
    ELSE IF name = "save_form_field" THEN save_form_field(fs, value)
    ELSE IF name = "generate_anmeldung_pdf"
    THEN generate_anmeldung_pdf(fs, pdf_ok)
    ELSE unhandled_tool(fs, name)

\* args["field_id"] of a call, for the tools whose branch would read it
field_id_args(name) ==
    IF name \in {"navigate_to_field", "update_previous_field"}
    THEN FieldIds \cup {UnknownId} ELSE {None}

\* args["value"] of a call, for the tools whose branch would read it
value_args(name) ==
    IF name \in {"validate_form_field", "save_form_field",
                 "update_previous_field"}
    THEN Values ELSE {""}

\* Whether generate_anmeldung_pdf and the write of its file succeed
pdf_outcomes(name) ==
    IF name = "generate_anmeldung_pdf" THEN BOOLEAN ELSE {TRUE}

\* handle_tool_calls is entered with a batch of tool_total calls, tool_total
\* one of `sizes`; an empty batch returns at once.
handle_tool_calls_of(sizes) ==
    /\ tool_pc # "handling"
    /\ \E k \in sizes :
        /\ tool_total' = k
        /\ tool_pc' = IF k = 0 THEN "returned" ELSE "handling"
    /\ responses' = <<>>
    /\ h_calls' = <<>>
    /\ h_messages' = <<>>
    /\ h_events' = <<>>
    /\ emits("none", "", <<>>)
    /\ h_op' = op("handle_tool_calls", None, "", FALSE)
    /\ UNCHANGED <<current_index, answers, validation_errors, pipeVars,
                   otherVars>>

\* A tool_call of the session with any number of function calls
handle_tool_calls == handle_tool_calls_of(0..MaxBatch)

\* A tool_call of the session with one function call
handle_tool_call == handle_tool_calls_of({1})

\* handle_tool_calls: one pass of `for func_call in function_calls` for a
\* call named in `names`, the call's id being its place in the batch; the
\* branch's event goes through emit_sync on the session's thread; after the
\* last pass the responses, if any, are given to session.send_tool_response.
\* Nothing else of the session runs between the passes.
handle_tool_calls_pass(names) ==
    /\ tool_pc = "handling"
    /\ \E name \in names :
        \E field_id \in field_id_args(name), value \in value_args(name),
           pdf_ok \in pdf_outcomes(name) :
        \E r \in {handle_function_call(form_state, name, field_id, value,
                                        pdf_ok)} :
        LET call_id == Len(h_calls) + 1
            last == call_id = tool_total
            rs == IF r.raised THEN responses
                  ELSE Append(responses, [id |-> call_id, name |-> name,
                                          reply |-> r.reply])
        IN  /\ becomes(r.fs)
            /\ h_calls' = Append(h_calls, name)
            /\ responses' = rs
            /\ tool_pc' = IF r.raised THEN "raised"
                          ELSE IF last THEN "returned" ELSE "handling"
            /\ h_messages' = IF ~r.raised /\ last /\ rs # <<>>
                             THEN Append(h_messages, rs) ELSE h_messages
            /\ h_events' = h_events \o r.events
            /\ emits("emit_sync", "session", r.events)
            /\ h_op' = op(name, field_id, value, FALSE)
    /\ UNCHANGED <<tool_total, pipeVars, frameVars, runnerVars, iterVars>>

\* The pass as the session alone sees it: the server's copy of the form is
\* not touched by it
handle_tool_calls_call_of(names) ==
    /\ handle_tool_calls_pass(names)
    /\ UNCHANGED mirrorVars

\* One pass for a call of any name
handle_tool_calls_call == handle_tool_calls_call_of(ToolNames)

(* The emitter's callers and subscribers. *)

\* Events the session's receive loop and the server's create_session emit
Transcript == FormEvent("transcript", None, "user", TRUE, 0)
SessionStarted == FormEvent("session_started", None, "", TRUE, 0)

\* The form and the session's tool handling stand still
emitter_only == UNCHANGED <<pipeVars, formVars, otherVars>>

\* await event_emitter.subscribe(queue), on a running loop
subscribe_queue ==
    /\ \E loop \in SubscriberLoops : loop_running[loop]
    /\ \E q \in Queues : queue_subscribers' = queue_subscribers \cup {q}
    /\ h_emit' = NoEmit
    /\ UNCHANGED <<callable_subscribers, queue_items, loop_running, ready,
                   h_enqueued, h_received, h_broadcast>>
    /\ emitter_only

\* await event_emitter.subscribe(callback): stored with the running loop
subscribe ==
    /\ \E callback \in Callbacks, loop \in SubscriberLoops :
        /\ loop_running[loop]
        /\ callable_subscribers' =
            callable_subscribers \cup {[cb |-> callback, loop |-> loop]}
    /\ h_emit' = NoEmit
    /\ UNCHANGED <<queue_subscribers, queue_items, loop_running, ready,
                   h_enqueued, h_received, h_broadcast>>
    /\ emitter_only

\* await event_emitter.emit(event) in a coroutine of a running loop
call_emit ==
    /\ Len(h_broadcast) < MaxEmits
    /\ \E thread \in Loops :
        /\ loop_running[thread]
        /\ emits("emit", thread, <<SessionStarted>>)
    /\ emitter_only

\* event_emitter.emit_sync(event) on a thread
call_emit_sync ==
    /\ Len(h_broadcast) < MaxEmits
    /\ \E thread \in Loops : emits("emit_sync", thread, <<Transcript>>)
    /\ emitter_only

\* A running loop starts the callback run at the head of what it was given:
\* the coroutine runs on the loop's thread
run_callback ==
    /\ \E loop \in Loops :
        /\ loop_running[loop]
        /\ ready[loop] # <<>>
        /\ ready' = [ready EXCEPT ![loop] = Tail(@)]
        /\ h_received' =
            [h_received EXCEPT ![Head(ready[loop]).sub] =
                Append(@, [event |-> Head(ready[loop]).event,
                           thread |-> loop])]
    /\ h_emit' = NoEmit
    /\ UNCHANGED <<queue_subscribers, callable_subscribers, queue_items,
                   loop_running, h_enqueued, h_broadcast>>
    /\ emitter_only

\* The WebSocket handler's `await queue.get()`
queue_get ==
    /\ \E q \in Queues :
        /\ queue_items[q] # <<>>
        /\ queue_items' = [queue_items EXCEPT ![q] = Tail(@)]
    /\ h_emit' = NoEmit
    /\ UNCHANGED <<queue_subscribers, callable_subscribers, loop_running,
                   ready, h_enqueued, h_received, h_broadcast>>
    /\ emitter_only

\* A subscriber's loop stops: what it was given and has not started stays
\* unstarted
loop_stop ==
    /\ \E loop \in SubscriberLoops :
        /\ loop_running[loop]
        /\ loop_running' = [loop_running EXCEPT ![loop] = FALSE]
    /\ h_emit' = NoEmit
    /\ UNCHANGED <<queue_subscribers, callable_subscribers, queue_items,
                   ready, h_enqueued, h_received, h_broadcast>>
    /\ emitter_only

\* The server as it runs: lifespan has subscribed its listener, a WebSocket
\* connection its queue, and a plain listener stands beside them
ServerSubscribed ==
    /\ queue_subscribers = Queues
    /\ callable_subscribers =
        {[cb |-> "on_event", loop |-> "server"],
         [cb |-> "on_event_plain", loop |-> "server"]}
    /\ queue_items = [q \in Queues |-> <<>>]
    /\ loop_running = [loop \in Loops |-> TRUE]
    /\ ready = [loop \in Loops |-> <<>>]
    /\ h_enqueued = [q \in Queues |-> <<>>]
    /\ h_received = [s \in Subscribers |-> <<>>]
    /\ h_broadcast = <<>>
    /\ h_emit = NoEmit

\* A tool_call of MaxBurst function calls reaches a session that has
\* broadcast nothing yet
receive_tool_call ==
    /\ h_broadcast = <<>>
    /\ handle_tool_calls_of({MaxBurst})

\* One pass for a call of the tools that take the session through a field
handle_field_call == handle_tool_calls_call_of(FieldTools)

(* The server's copy of a session's form: lifespan subscribes
   sync_form_state_from_events, which the server's loop runs for every event
   emit_sync hands it. *)

sync_saved_in_place(fs, event) ==
    record_value(fs, event.field_id, event.value)

\* sync_form_state_from_events, `if event.type == "field_saved"` with a
\* field_id and a value: the value is recorded and the form advanced if it
\* still stands on that field
sync_saved(fs, event) ==
    LET recorded == record_value(fs, event.field_id, event.value)
    IN  IF current_field(recorded) # None
           /\ current_field(recorded) = event.field_id
        THEN advance(recorded) ELSE recorded

\* The server with create_session done: its listener subscribed from its
\* loop, the session's form and its own both FormState()
MirrorSubscribed ==
    /\ queue_subscribers = {}
    /\ callable_subscribers = {[cb |-> "on_event", loop |-> "server"]}
    /\ queue_items = [q \in Queues |-> <<>>]
    /\ loop_running = [loop \in Loops |-> TRUE]
    /\ ready = [loop \in Loops |-> <<>>]
    /\ h_enqueued = [q \in Queues |-> <<>>]
    /\ h_received = [s \in Subscribers |-> <<>>]
    /\ h_broadcast = <<>>
    /\ h_emit = NoEmit

\* One pass of the session's handle_tool_calls for a field tool; a
\* field_saved it emits is noted with the form as the pass leaves it
handle_field_call_noted ==
    /\ handle_tool_calls_pass(FieldTools)
    /\ h_saved' =
        IF h_emit'.events # <<>> /\ h_emit'.events[1].type = "field_saved"
        THEN Append(h_saved, [answers |-> answers',
                              current_index |-> current_index'])
        ELSE h_saved
    /\ UNCHANGED <<sessions, h_synced>>

\* The server's loop starts the listener run at the head of what it was
\* given: sync_form_state_from_events(event), the session being known
sync_form_state_from_events ==
    /\ loop_running["server"]
    /\ ready["server"] # <<>>
    /\ \E run \in {Head(ready["server"])} :
        /\ ready' = [ready EXCEPT !["server"] = Tail(@)]
        /\ h_received' =
            [h_received EXCEPT ![run.sub] =
                Append(@, [event |-> run.event, thread |-> "server"])]
        /\ IF run.event.type = "field_saved" /\ run.event.field_id # None
           THEN /\ sessions' = sync_saved(sessions, run.event)
                /\ h_synced' = h_synced + 1
           ELSE UNCHANGED <<sessions, h_synced>>
    /\ h_emit' = NoEmit
    /\ UNCHANGED <<queue_subscribers, callable_subscribers, queue_items,
                   loop_running, h_enqueued, h_broadcast, h_saved>>
    /\ UNCHANGED <<pipeVars, formVars, frameVars, runnerVars, iterVars>>

----------------------------------------------------------------------------

(* emit_sync on the session's thread, statement by statement, beside the
   WebSocket handler's subscribe(queue) and unsubscribe(queue) on the
   server's loop. The emitter's asyncio.Lock is taken by subscribe and
   unsubscribe only; emit_sync iterates the subscriber sets unguarded. *)

\* The queues of the WebSocket connections: each connection makes its own
Sockets == 1..MaxSockets

\* The event of the session's k-th emit_sync
Saved(k) == FormEvent("field_saved", k, "new", TRUE, 0)

set_changed_never(used, subscribers) == FALSE

\* A set iterator's __next__: it raises RuntimeError("Set changed size
\* during iteration") when the set's size is not what it was when the
\* iterator was made
set_changed(used, subscribers) == used # Cardinality(subscribers)

\* The server with lifespan done: its listener subscribed, no connection
ConcurrentInit ==
    /\ queue_subscribers = {}
    /\ callable_subscribers = {[cb |-> "on_event", loop |-> "server"]}
    /\ queue_items = [q \in Sockets |-> <<>>]
    /\ loop_running = [loop \in Loops |-> TRUE]
    /\ ready = [loop \in Loops |-> <<>>]
    /\ h_enqueued = [q \in Sockets |-> <<>>]
    /\ h_received = [s \in Subscribers |-> <<>>]
    /\ h_broadcast = <<>>
    /\ h_emit = NoEmit

concurrent_only ==
    UNCHANGED <<pipeVars, formVars, frameVars, runnerVars, mirrorVars,
                callable_subscribers, loop_running, h_received, h_emit>>

\* websocket_endpoint, `await event_emitter.subscribe(queue)`: set.add; an
\* iterator in hand may or may not come to the new entry
websocket_subscribe ==
    /\ connections < MaxSockets
    /\ connections' = connections + 1
    /\ \E q \in {connections + 1} :
        /\ queue_subscribers' = queue_subscribers \cup {q}
        /\ iter_left' \in IF emit_pc = "queues"
                          THEN {iter_left, iter_left \cup {q}}
                          ELSE {iter_left}
    /\ UNCHANGED <<queue_items, ready, h_enqueued, h_broadcast, emit_pc,
                   iter_used, h_stayed>>
    /\ concurrent_only

\* websocket_endpoint, `finally: await event_emitter.unsubscribe(queue)`:
\* set.discard on the queues; the callables are rebuilt into a new set
websocket_unsubscribe ==
    /\ \E q \in queue_subscribers :
        /\ queue_subscribers' = queue_subscribers \ {q}
        /\ iter_left' = iter_left \ {q}
        /\ h_stayed' = h_stayed \ {q}
    /\ UNCHANGED <<queue_items, ready, h_enqueued, h_broadcast, emit_pc,
                   iter_used, connections>>
    /\ concurrent_only

\* emit_sync(event) of a session's one event, up to the head of
\* `for queue in self._queue_subscribers`: with no subscriber it returns
emit_sync_begin ==
    /\ emit_pc = "idle"
    /\ h_broadcast' = Append(h_broadcast, Saved(Len(h_broadcast) + 1))
    /\ emit_pc' = IF Cardinality(queue_subscribers)
                     + Cardinality(callable_subscribers) = 0
                  THEN "returned" ELSE "for"
    /\ h_stayed' = queue_subscribers
    /\ UNCHANGED <<queue_subscribers, queue_items, ready, h_enqueued,
                   iter_used, iter_left, connections>>
    /\ concurrent_only

\* emit_sync, one turn of `for queue in self._queue_subscribers`, the first
\* one making the set's iterator: the iterator raises, which no try of
\* emit_sync encloses, or is exhausted, or yields a queue and the event is
\* put on it (a connection's queue is an asyncio.Queue() without maxsize)
emit_sync_queue ==
    /\ emit_pc \in {"for", "queues"}
    /\ \E used \in {IF emit_pc = "for" THEN Cardinality(queue_subscribers)
                    ELSE iter_used},
          left \in {IF emit_pc = "for" THEN queue_subscribers
                    ELSE iter_left} :
        /\ iter_used' = used
        /\ IF set_changed(used, queue_subscribers)
           THEN /\ emit_pc' = "raised"
                /\ UNCHANGED <<iter_left, queue_items, h_enqueued>>
           ELSE IF left = {}
           THEN /\ emit_pc' = "callbacks"
                /\ iter_left' = left
                /\ UNCHANGED <<queue_items, h_enqueued>>
           ELSE \E q \in left :
                /\ iter_left' = left \ {q}
                /\ queue_items' =
                    [queue_items EXCEPT ![q] =
                        put_nowait(@, h_broadcast[Len(h_broadcast)], 0)]
                /\ h_enqueued' =
                    [h_enqueued EXCEPT ![q]
                        = Append(@, h_broadcast[Len(h_broadcast)])]
                /\ emit_pc' = "queues"
    /\ UNCHANGED <<queue_subscribers, ready, h_broadcast, connections,
                   h_stayed>>
    /\ concurrent_only

\* emit_sync, `for callback, subscriber_loop in self._callable_subscribers`:
\* each run is handed to its subscriber's loop; nothing changes that set
\* while the server runs
emit_sync_callbacks ==
    /\ emit_pc = "callbacks"
    /\ \E order \in Orders(callable_subscribers) :
        ready' =
            [loop \in Loops |->
                call_soon(ready[loop],
                    LET mine(sub) == invoke_callback_sync(sub) = loop
                        picked == SelectSeq(order, mine)
                    IN  [i \in 1..Len(picked) |->
                            [sub |-> picked[i],
                             event |-> h_broadcast[Len(h_broadcast)]]])]
    /\ emit_pc' = "returned"
    /\ UNCHANGED <<queue_subscribers, queue_items, h_enqueued, h_broadcast,
                   iter_used, iter_left, connections, h_stayed>>
    /\ concurrent_only

----------------------------------------------------------------------------

(* process_frame on raw bytes. *)

\* VADConfig.frame_size: 16-bit samples, two bytes each
frame_size == samples_per_frame * 2

\* The frames a caller may pass: any length from 0 to MaxExtra bytes more
\* than frame_size
Frames == UNION {[1..n -> Bytes] : n \in 0..(frame_size + MaxExtra)}

pad_or_truncate_skipped(audio_frame) == audio_frame

\* process_frame, `if len(audio_frame) != expected_size`
pad_or_truncate(audio_frame) ==
    IF Len(audio_frame) = frame_size THEN audio_frame
    ELSE IF Len(audio_frame) < frame_size
    THEN audio_frame \o [i \in 1..(frame_size - Len(audio_frame)) |-> 0]
    ELSE SubSeq(audio_frame, 1, frame_size)

\* struct.unpack(f'{len(audio_frame) // 2}h', audio_frame): little-endian
\* signed 16-bit samples; the caller has seen that the length is even
unpack(audio_frame) ==
    [i \in 1..(Len(audio_frame) \div 2) |->
        LET u == audio_frame[2 * i - 1] + 256 * audio_frame[2 * i]
        IN  IF u >= 32768 THEN u - 65536 ELSE u]

RECURSIVE sum_of_squares(_)
sum_of_squares(samples) ==
    IF samples = <<>> THEN 0
    ELSE Head(samples) * Head(samples) + sum_of_squares(Tail(samples))

\* sum / len(samples) / 32768.0 ** 2 > 0.02, in whole numbers:
\* 0.02 * 32768 ** 2 = 21474836.48
over_threshold(total, n) ==
    \/ total \div n > 21474836
    \/ total \div n = 21474836 /\ 25 * (total % n) > 12 * n

\* _energy_based_detection: struct.unpack raises struct.error on a buffer
\* of odd length and the mean raises ZeroDivisionError on no samples
_energy_based_detection(audio_frame) ==
    IF Len(audio_frame) % 2 # 0 \/ Len(audio_frame) = 0 THEN "raised"
    ELSE IF over_threshold(sum_of_squares(unpack(audio_frame)),
                           Len(audio_frame) \div 2)
    THEN "speech" ELSE "silence"

\* _is_speech_frame with self.vad set or not: webrtcvad raises on a frame
\* that is not frame_duration_ms long and is then disabled; on a frame of
\* the right length it answers `verdict`. energy_threshold is 0.02.
_is_speech_frame(audio_frame, has_vad, verdict) ==
    IF has_vad /\ Len(audio_frame) = frame_size
    THEN [result |-> IF verdict THEN "speech" ELSE "silence", vad |-> TRUE]
    ELSE [result |-> _energy_based_detection(audio_frame), vad |-> FALSE]

\* HAS_WEBRTC: webrtcvad is installed; no frame is in hand
FrameInit ==
    /\ webrtc_vad = TRUE
    /\ h_frame = [given |-> <<>>, classified |-> <<>>, result |-> "idle"]

\* A frame handed to process_frame, not yet processed
given(audio_frame) ==
    [given |-> audio_frame, classified |-> <<>>, result |-> "none"]

\* process_frame(audio_frame) on the frame in hand: it is brought to
\* frame_size, classified, and the state machine run on the answer; an
\* exception of the classifier leaves the detector as it was.
process_audio_frame ==
    /\ h_frame.result = "none"
    /\ \E verdict \in BOOLEAN, dt \in 0..MaxDt :
        \E c \in {_is_speech_frame(pad_or_truncate(h_frame.given),
                                   webrtc_vad, verdict)} :
        /\ now + dt <= MaxClock
        /\ now' = now + dt
        /\ webrtc_vad' = c.vad
        /\ h_frame' = [given |-> h_frame.given,
                       classified |-> pad_or_truncate(h_frame.given),
                       result |-> c.result]
        /\ IF c.result = "raised"
           THEN UNCHANGED <<vad, h_called, h_prev, h_ret, h_dur, h_run, h_sil>>
           ELSE /\ vad' = process_frame(vad, c.result = "speech", now + dt)
                /\ Observe(vad, c.result = "speech", now + dt)
    /\ UNCHANGED <<capVars, micVars, playVars, stop_event, runVars, formVars,
                   eventVars, runnerVars, mirrorVars, iterVars>>

----------------------------------------------------------------------------

(* VoicePipelineRunner. start() and stop() are called from the server's
   request handlers, one at a time; run_in_thread's `finally` runs on the
   pipeline thread, at any time after the thread has been started. *)

NoCall == [op |-> "none", returned |-> FALSE]

RunnerInit ==
    /\ _is_running = FALSE
    /\ _current_session_id = None
    /\ launched = 0
    /\ alive = {}
    /\ start_pc = "idle"
    /\ h_runner = NoCall

runner_only ==
    UNCHANGED <<pipeVars, formVars, eventVars, frameVars, mirrorVars,
                iterVars>>

\* start(session_id), `if self._is_running: return False`
start_refused ==
    /\ start_pc = "idle"
    /\ _is_running
    /\ h_runner' = [op |-> "start", returned |-> FALSE]
    /\ UNCHANGED <<_is_running, _current_session_id, launched, alive,
                   start_pc>>
    /\ runner_only

\* start(session_id) up to and with self._thread.start(); the session's id
\* is the number of its thread
start_launch ==
    /\ start_pc = "idle"
    /\ ~_is_running
    /\ launched < MaxStarts
    /\ _current_session_id' = launched + 1
    /\ launched' = launched + 1
    /\ alive' = alive \cup {launched + 1}
    /\ start_pc' = "started"
    /\ UNCHANGED <<_is_running, h_runner>>
    /\ runner_only

\* start(), `self._is_running = True; return True`
start_return ==
    /\ start_pc = "started"
    /\ _is_running' = TRUE
    /\ start_pc' = "idle"
    /\ h_runner' = [op |-> "start", returned |-> TRUE]
    /\ UNCHANGED <<_current_session_id, launched, alive>>
    /\ runner_only

\* stop(): only the flag is cleared; the thread is left to end by itself
stop ==
    /\ start_pc = "idle"
    /\ _is_running' = FALSE
    /\ h_runner' = [op |-> "stop", returned |-> _is_running]
    /\ UNCHANGED <<_current_session_id, launched, alive, start_pc>>
    /\ runner_only

\* run_in_thread of thread t ends, asyncio.run having returned or raised:
\* its `finally` clears the runner's flag and session id
run_in_thread_exit ==
    /\ \E t \in alive : alive' = alive \ {t}
    /\ _is_running' = FALSE
    /\ _current_session_id' = None
    /\ UNCHANGED <<launched, start_pc, h_runner>>
    /\ runner_only

----------------------------------------------------------------------------

MirrorInit ==
    /\ sessions = FormState
    /\ h_saved = <<>>
    /\ h_synced = 0

IterInit ==
    /\ emit_pc = "idle"
    /\ iter_used = 0
    /\ iter_left = {}
    /\ connections = 0
    /\ h_stayed = {}

OtherInit == FrameInit /\ RunnerInit /\ MirrorInit /\ IterInit

----------------------------------------------------------------------------

InitVAD == VadInit /\ PipeInit /\ FormInit /\ EventInit /\ OtherInit

NextVAD == VadFrame \/ VadReset

SpecVAD == InitVAD /\ [][NextVAD]_vars

\* voice_api/app/session.py: the ungated capture loop with the three others
InitSession == VadInit /\ PipeInit /\ FormInit /\ EventInit /\ OtherInit

NextSession == listen_to_microphone_app \/ MicLoops \/ PlayLoops

SpecSession == InitSession /\ [][NextSession]_vars

\* voice_api/client.py: the VAD-gated capture loop and the transmit loop,
\* the playback and receive loops acting through the two events
InitClient == VadInit /\ PipeInit /\ FormInit /\ EventInit /\ OtherInit

NextClient == listen_to_microphone \/ MicLoops \/ PlayEvents

SpecClient == InitClient /\ [][NextClient]_vars

\* client.run(): the TaskGroup of the four loops and the cleanup. The
\* capture loop is taken without its detector, which touches neither
\* stop_event nor a loop's exit.
InitRun == VadInit /\ RunInit /\ FormInit /\ EventInit /\ OtherInit

NextRun ==
    \/ open_mic
    \/ open_speaker
    \/ listen_to_microphone_app
    \/ MicLoops
    \/ PlayLoops
    \/ task_group_exit
    \/ close

SpecRun == InitRun /\ [][NextRun]_vars

\* A FormState under any caller: direct method calls, the REST update and
\* tool calls that arrive one to a message
InitForm == VadInit /\ PipeInit /\ FormInit /\ EventInit /\ OtherInit

NextForm ==
    \/ call_current_field
    \/ call_advance
    \/ call_record_value
    \/ call_set_error
    \/ update_field
    \/ handle_tool_call
    \/ handle_tool_calls_call

SpecForm == InitForm /\ [][NextForm]_vars

\* The FormState of a voice session: run() hands it to receive_from_model
\* only, and handle_tool_calls alone works on it, batch after batch
InitTools == VadInit /\ PipeInit /\ FormInit /\ EventInit /\ OtherInit

NextTools == handle_tool_calls \/ handle_tool_calls_call

SpecTools == InitTools /\ [][NextTools]_vars

\* The emitter under its callers: subscribers arrive, both threads emit,
\* the loops start what they were given and the subscribers' loop may stop
InitEvents == VadInit /\ PipeInit /\ FormInit /\ EventInit /\ OtherInit

NextEvents ==
    \/ subscribe_queue
    \/ subscribe
    \/ call_emit
    \/ call_emit_sync
    \/ run_callback
    \/ queue_get
    \/ loop_stop

SpecEvents == InitEvents /\ [][NextEvents]_vars

\* A voice session taken through its fields while the server listens
InitBroadcast ==
    VadInit /\ PipeInit /\ FormInit /\ ServerSubscribed /\ OtherInit

NextBroadcast ==
    \/ receive_tool_call
    \/ handle_field_call
    \/ run_callback
    \/ queue_get

SpecBroadcast == InitBroadcast /\ [][NextBroadcast]_vars

\* The capture and receive loops with both consumers stalled: the transmit
\* loop is in a send and the playback loop in a write that do not return
InitStalled == VadInit /\ PipeInit /\ FormInit /\ EventInit /\ OtherInit

NextStalled == listen_to_microphone_app \/ receive_from_model_backlog

SpecStalled == InitStalled /\ [][NextStalled]_vars

\* The playback and receive loops of a session, the playback loop never
\* starved: the event loop resumes play_audio when a chunk is queued, and a
\* write handed to the worker thread comes back
InitPlayback == VadInit /\ PipeInit /\ FormInit /\ EventInit /\ OtherInit

NextPlayback == PlayLoops

SpecPlayback ==
    /\ InitPlayback
    /\ [][NextPlayback]_vars
    /\ WF_vars(play_audio_get)
    /\ WF_vars(play_audio_written)

\* A session's tool calls and the server's listener that follows them
InitMirror ==
    /\ VadInit /\ PipeInit /\ FormInit /\ MirrorSubscribed
    /\ FrameInit /\ RunnerInit /\ MirrorInit /\ IterInit

NextMirror ==
    \/ receive_tool_call
    \/ handle_field_call_noted
    \/ sync_form_state_from_events

SpecMirror == InitMirror /\ [][NextMirror]_vars

\* emit_sync of the session beside connecting and disconnecting WebSockets
InitConcurrent ==
    /\ VadInit /\ PipeInit /\ FormInit /\ ConcurrentInit /\ OtherInit

NextConcurrent ==
    \/ websocket_subscribe
    \/ websocket_unsubscribe
    \/ emit_sync_begin
    \/ emit_sync_queue
    \/ emit_sync_callbacks

SpecConcurrent == InitConcurrent /\ [][NextConcurrent]_vars

\* process_frame on frames of every length, with and without webrtcvad
InitFrames ==
    /\ VadInit /\ PipeInit /\ FormInit /\ EventInit
    /\ webrtc_vad \in BOOLEAN
    /\ h_frame \in {given(audio_frame) : audio_frame \in Frames}
    /\ RunnerInit /\ MirrorInit /\ IterInit

NextFrames == process_audio_frame

SpecFrames == InitFrames /\ [][NextFrames]_vars

\* The runner under start() and stop() calls and ending pipeline threads
InitRunner ==
    VadInit /\ PipeInit /\ FormInit /\ EventInit /\ OtherInit

NextRunner ==
    \/ start_refused
    \/ start_launch
    \/ start_return
    \/ stop
    \/ run_in_thread_exit

SpecRunner == InitRunner /\ [][NextRunner]_vars


----------------------------------------------------------------------------
(* Claims about the detector, checked under SpecVAD.                       *)

\* C1: from a fresh or reset detector, process_frame returns SPEAKING exactly
\* on the speech_start_frames-th frame of a run of consecutive speech frames
\* and SILENCE on every earlier frame; a non-speech frame restarts the count
\* (h_run, counted apart from the detector's window, is 0 after it).
C1_StartAtNthSpeechFrame ==
    (h_called /\ h_prev = SILENCE) =>
        /\ (h_ret = SPEAKING) <=> (h_run = speech_start_frames)
        /\ (h_ret = SILENCE) <=> (h_run < speech_start_frames)

C1_Witness ==
    h_called /\ h_prev = SILENCE /\ h_ret = SPEAKING /\ h_run = speech_start_frames

\* C2: while SPEAKING with min_speech_duration <= elapsed <= max_speech_duration,
\* process_frame returns SPEECH_ENDED exactly on the speech_end_frames-th
\* consecutive non-speech frame after the triggering frame and SPEAKING on
\* every earlier one; a speech frame restarts the silence count.
C2_EndAtNthSilenceFrame ==
    (h_called /\ h_prev = SPEAKING
        /\ h_dur >= min_speech_duration /\ h_dur <= max_speech_duration) =>
        /\ (h_ret = SPEECH_ENDED) <=> (h_sil = speech_end_frames)
        /\ (h_ret = SPEAKING) <=> (h_sil < speech_end_frames)

C2_Witness ==
    /\ h_called /\ h_prev = SPEAKING /\ h_ret = SPEECH_ENDED
    /\ h_sil = speech_end_frames
    /\ h_dur >= min_speech_duration /\ h_dur <= max_speech_duration

\* C3: speech_end_frames consecutive non-speech frames arriving while the
\* elapsed duration is below min_speech_duration never give SPEECH_ENDED: the
\* detector is reset and SILENCE returned, windows empty, timing cleared.
C3_ShortBurstDiscarded ==
    (h_called /\ h_prev = SPEAKING /\ h_sil = speech_end_frames
        /\ h_dur < min_speech_duration) =>
        /\ h_ret = SILENCE
        /\ vad = VoiceActivityDetector

C3_Witness ==
    /\ h_called /\ h_prev = SPEAKING /\ h_sil = speech_end_frames
    /\ h_dur < min_speech_duration /\ h_ret = SILENCE

\* C4: while SPEAKING, a process_frame call at which the elapsed time exceeds
\* max_speech_duration returns SPEECH_ENDED, speech frame or not, however few
\* silence frames were counted.
C4_MaxDurationForcesEnd ==
    (h_called /\ h_prev = SPEAKING /\ h_dur > max_speech_duration) =>
        h_ret = SPEECH_ENDED

C4_Witness ==
    /\ h_called /\ h_prev = SPEAKING /\ h_dur > max_speech_duration
    /\ h_sil = 0 /\ h_ret = SPEECH_ENDED

----------------------------------------------------------------------------
(* Claims about the capture and transmit loops of client.py, checked under *)
(* SpecClient.                                                             *)

\* C5: whenever the detector returned SILENCE for a frame and no trailing
\* window is active, the capture loop buffers the frame in pre_speech_buffer
\* and does not put it on mic_queue (also after a short burst was discarded
\* as a false trigger).
C5_SilenceIsBufferedNotForwarded ==
    (captured > 0 /\ h_ret = SILENCE /\ ~h_trail) =>
        /\ ~h_fwd
        /\ pre_speech_buffer # <<>>
        /\ pre_speech_buffer[Len(pre_speech_buffer)] = captured

\* C7: frames reach the session in capture order: every frame handed to
\* send_realtime_input was read from the microphone after the one handed
\* before it, the flushed pre-speech frames before the frame that triggered
\* SPEAKING among them.
C7_SentInCaptureOrder ==
    [][sent_last' # sent_last => sent_last' > sent_last]_vars

\* Frames 1 and 2 were buffered, frame 3 triggered SPEAKING and flushed
\* them, and frame 3 has been sent after they left the queue.
C7_Witness ==
    /\ captured = 3 /\ h_prev = SILENCE /\ h_ret = SPEAKING
    /\ sent_last = 3 /\ mic_queue = <<>>

----------------------------------------------------------------------------
(* Claims about the loops of app/session.py, checked under SpecSession.    *)

\* C6: mic_queue never holds more than mic_queue_maxsize frames; a frame
\* produced while it is full is dropped, the queued frames stay in place and
\* nothing is raised; with the consumer stalled the queue holds the first
\* min(captured, mic_queue_maxsize) frames, so 7 frames into the empty
\* capacity-5 queue keep frames 1..5 and drop 2.
C6_FullQueueDropsNewest ==
    [][/\ Len(mic_queue') <= mic_queue_maxsize
       /\ (captured' = captured + 1 /\ Len(mic_queue) = mic_queue_maxsize) =>
            /\ mic_queue' = mic_queue
            /\ stop_event' = stop_event
       /\ ~h_consumed' =>
            mic_queue' = [i \in 1..(IF captured' < mic_queue_maxsize
                                    THEN captured' ELSE mic_queue_maxsize) |-> i]
      ]_vars

C6_Witness ==
    captured = 7 /\ ~h_consumed /\ mic_queue = <<1, 2, 3, 4, 5>>

\* The step in which the transmit loop's mic_queue.get() returns
Dequeued == mic_queue # <<>> /\ mic_queue' = Tail(mic_queue)

\* C8: a frame dequeued while play_guard is set is discarded, neither sent to
\* the session nor put back on mic_queue; a frame dequeued while it is clear
\* is handed to send_realtime_input.
C8_GuardedFrameDiscarded ==
    [][Dequeued =>
        IF play_guard
        THEN /\ sent_last' = sent_last
             /\ send_pc' # "sending"
             /\ \A i \in 1..Len(mic_queue') : mic_queue'[i] # Head(mic_queue)
        ELSE /\ sent_last' = Head(mic_queue)
             /\ send_pc' = "sending"
             /\ sending' = Head(mic_queue)
      ]_vars

\* Frame 1 was dequeued under the guard and has not been sent.
C8_Witness ==
    /\ captured = 1 /\ h_consumed /\ mic_queue = <<>>
    /\ sent_last = 0 /\ send_pc = "get" /\ play_guard

\* C9: the playback loop sets play_guard before each speaker write and, when
\* the write returns, clears it if the playback queue is empty and leaves it
\* as it is otherwise, so that it stays set across the writes of queued chunks.
C9_GuardClearedOnlyOnEmptyQueue ==
    [][/\ (play_pc # "writing" /\ play_pc' = "writing") => play_guard'
       /\ (play_pc = "writing" /\ play_pc' # "writing") =>
            IF playback_queue = <<>> THEN ~play_guard'
            ELSE play_guard' = play_guard
      ]_vars

\* A write returned with chunks still queued and the guard is still set.
C9_Witness ==
    play_pc = "get" /\ play_guard /\ playback_queue # <<>> /\ ~stop_event

\* C10: on an interrupted message the receive loop clears play_guard and
\* empties the playback queue before it enqueues the message's own audio:
\* the queue then holds that audio alone, and no chunk received before the
\* interruption is in the queue or dequeued for playback afterwards.
C10_InterruptDrainsQueue ==
    [][/\ \A n \in 0..MaxParts :
            receive(TRUE, n) =>
                /\ ~play_guard'
                /\ playback_queue' = chunks(next_chunk, n)
       /\ \A i \in 1..Len(playback_queue') : playback_queue'[i] > h_mark'
       /\ (playing' # playing /\ playing' # 0) => playing' > h_mark'
      ]_vars

\* An interruption came while chunk 1 was being written with chunk 2 queued;
\* the message's own chunk 3 is all the queue holds.
C10_Witness ==
    /\ h_mark = 2 /\ playing = 1 /\ playback_queue = <<3>> /\ ~play_guard

----------------------------------------------------------------------------
(* Claims about the orchestrator, checked under SpecRun.                   *)

\* C11: once stop_event is set every loop leaves its iteration loop, a loop
\* suspended in a queue get included. As a property of finite runs: a state
\* in which stop_event is set and nothing can take a step any more has all
\* four loops finished.
C11_StopReleasesEveryLoop ==
    (stop_event /\ ~ENABLED NextRun) =>
        /\ finished(listen_pc)
        /\ finished(send_pc)
        /\ finished(recv_pc)
        /\ finished(play_pc)

\* C12: whichever loop sets stop_event, run() goes on to AudioPipelines.close()
\* and the devices are released exactly once. As a property of finite
\* runs: a state in which stop_event is set and nothing can take a step any
\* more has each opened stream closed once and the client terminated once.
C12_StopLeadsToRelease ==
    (stop_event /\ ~ENABLED NextRun) =>
        /\ run_pc = "closed"
        /\ released = [mic |-> closed(0, mic_stream),
                       speaker |-> closed(0, speaker_stream),
                       pya |-> 1]

\* The failures C13 lists and the task each belongs to
ListedFailures == {"mic_read", "send", "receive", "tool_call", "speaker_write"}

task_of(point) ==
    IF point = "mic_read" THEN "listen"
    ELSE IF point = "send" THEN "send"
    ELSE IF point = "speaker_write" THEN "play"
    ELSE "receive"

\* C13: a failure of the microphone read, of a send, of the response stream
\* (a raising tool-call handler included) or of the speaker write has set
\* stop_event and has not left its task as an exception.
C13_FailureSetsStopAndIsCaught ==
    \A point \in h_raised \cap ListedFailures :
        stop_event /\ task_of(point) \notin escaped

\* C13 witness: the tool-call handler has raised inside the receive loop
C13_Witness ==
    /\ "tool_call" \in h_raised
    /\ recv_pc = "done"
    /\ stop_event
    /\ "receive" \notin escaped

----------------------------------------------------------------------------
(* Claims about FormState, checked under SpecForm.                         *)

C16_RecordValueTouchesOneField ==
    [][h_op'.name = "record_value" =>
          LET id == h_op'.id
          IN  /\ DOMAIN answers' = (DOMAIN answers) \cup {id}
              /\ answers'[id] = h_op'.value
              /\ \A x \in (DOMAIN answers) \ {id} : answers'[x] = answers[x]
              /\ DOMAIN validation_errors' = (DOMAIN validation_errors) \ {id}
              /\ \A x \in DOMAIN validation_errors' :
                     validation_errors'[x] = validation_errors[x]
              /\ current_index' = current_index]_vars

\* C16 witness: a value was recorded for a field that had an error, while
\* another field keeps its error and another answer is held
C16_Witness ==
    /\ h_op.name = "record_value"
    /\ h_op.had_error
    /\ DOMAIN validation_errors # {}
    /\ DOMAIN answers # {h_op.id}

----------------------------------------------------------------------------
(* Claims about the tool-call handler, checked under SpecTools.            *)

\* The FormState object is as it was
form_unchanged ==
    UNCHANGED <<current_index, answers, validation_errors>>

\* C17: update_previous_field for the current field or one not yet reached
\* is answered ok:false and leaves answers, validation_errors and
\* current_index as they were.
C17_EarlyCorrectionRejected ==
    [][(/\ h_op'.name = "update_previous_field"
        /\ h_op'.id \in FieldIds
        /\ index_of(h_op'.id) >= current_index) =>
          /\ Len(responses') = Len(responses) + 1
          /\ responses'[Len(responses')].reply = "ok:false"
          /\ form_unchanged]_vars

\* C18: update_previous_field for a field already completed, with a value
\* the validator accepts, stores the value and leaves current_index alone.
C18_CorrectionStoresValue ==
    [][(/\ h_op'.name = "update_previous_field"
        /\ h_op'.id \in FieldIds
        /\ index_of(h_op'.id) < current_index
        /\ validate_field(h_op'.id, h_op'.value)) =>
          /\ h_op'.id \in DOMAIN answers'
          /\ answers'[h_op'.id] = h_op'.value
          /\ current_index' = current_index]_vars

\* C20: when handle_tool_calls is through with a batch of k >= 1 calls it
\* has sent one message of k responses, the i-th with the id and the name of
\* the i-th call.
C20_OneResponsePerCall ==
    (tool_pc \in {"returned", "raised"} /\ tool_total >= 1) =>
        /\ Len(h_messages) = 1
        /\ Len(h_messages[1]) = tool_total
        /\ \A i \in 1..tool_total :
               /\ h_messages[1][i].id = i
               /\ h_messages[1][i].name = h_calls[i]

----------------------------------------------------------------------------
(* Claims about the tool handler's branches and events, checked under      *)
(* SpecTools.                                                              *)

\* The tools build_function_declarations declares
DeclaredTools == ToolNames \ {"no_such_tool"}

\* The step is one pass of handle_tool_calls' loop
handles_a_call == tool_pc = "handling" /\ h_calls' # h_calls

\* The response the pass has appended
appended == responses'[Len(responses')]

\* C21: a call whose name is no declared tool gets, under its own id and
\* name, the "Unhandled tool" error response; the pass raises nothing,
\* leaves FormState as it was, gives the emitter nothing, and the batch goes
\* on: to the next call, or to the sending of all the responses.
C21_UnknownToolAnswered ==
    [][(handles_a_call /\ h_op'.name \notin DeclaredTools) =>
          /\ responses' =
                Append(responses, [id |-> Len(h_calls) + 1,
                                   name |-> h_op'.name,
                                   reply |-> "error:unhandled"])
          /\ tool_pc' # "raised"
          /\ form_unchanged
          /\ h_events' = h_events
          /\ h_emit' = NoEmit
          /\ IF Len(h_calls') < tool_total
             THEN tool_pc' = "handling" /\ h_messages' = h_messages
             ELSE tool_pc' = "returned"
                  /\ h_messages' = Append(h_messages, responses')]_vars

C21_Witness ==
    /\ tool_pc = "returned"
    /\ tool_total = MaxBatch
    /\ h_calls[1] = "no_such_tool"
    /\ h_calls[MaxBatch] = "save_form_field"
    /\ responses[1].reply = "error:unhandled"
    /\ responses[MaxBatch].reply = "ok:true"
    /\ h_messages = <<responses>>

\* C22: a validate_form_field call whose value the current field's
\* validator rejects leaves current_index and answers as they were, stores
\* the message in validation_errors under the current field's id and is
\* answered is_valid:false; a validate call on a complete form changes
\* nothing of FormState.
C22_RejectedValidationOnlyStoresError ==
    [][(handles_a_call /\ h_op'.name = "validate_form_field") =>
          /\ (current_field(form_state) # None
              /\ ~validate_field(current_field(form_state), h_op'.value)) =>
                /\ current_index' = current_index
                /\ answers' = answers
                /\ validation_errors' =
                      dict_set(validation_errors, current_field(form_state),
                               "invalid")
                /\ appended.reply = "is_valid:false"
          /\ is_complete(form_state) => form_unchanged]_vars

C22_Witness ==
    /\ h_op.name = "validate_form_field"
    /\ h_op.value = "bad"
    /\ current_index = 1
    /\ DOMAIN answers = {1}
    /\ DOMAIN validation_errors = {2}
    /\ responses # <<>>
    /\ responses[Len(responses)].reply = "is_valid:false"

\* C23: a save_form_field call whose value the current field's validator
\* rejects records nothing in answers and does not advance current_index.
C23_SaveEnforcesValidation ==
    [][(/\ handles_a_call
        /\ h_op'.name = "save_form_field"
        /\ current_field(form_state) # None
        /\ ~validate_field(current_field(form_state), h_op'.value)) =>
          /\ answers' = answers
          /\ current_index' = current_index]_vars

\* C24: an update_previous_field call for a field saved before, with a
\* value its validator accepts, gives the emitter a field_updated event
\* that carries the field's id and the new value.
C24_CorrectionEmitsFieldUpdated ==
    [][(/\ handles_a_call
        /\ h_op'.name = "update_previous_field"
        /\ h_op'.id \in DOMAIN answers
        /\ index_of(h_op'.id) < current_index
        /\ validate_field(h_op'.id, h_op'.value)) =>
          /\ Len(h_events') = Len(h_events) + 1
          /\ h_events'[Len(h_events')].type = "field_updated"
          /\ h_events'[Len(h_events')].field_id = h_op'.id
          /\ h_events'[Len(h_events')].value = h_op'.value]_vars

\* The events the pass gave the emitter
emitted == SubSeq(h_events', Len(h_events) + 1, Len(h_events'))

\* C25: a pass gives the emitter at most one event. A save on an active
\* field gives exactly one, a field_saved with the field and the value; a
\* validation that records an error exactly one, a validation_result with
\* the field, the value and is_valid false; no pass changes FormState
\* without an event; a pass answered done:true, ok:false or with an error
\* gives none.
C25_OneEventPerChange ==
    [][handles_a_call =>
          /\ Len(h_events') <= Len(h_events) + 1
          /\ SubSeq(h_events', 1, Len(h_events)) = h_events
          /\ (h_op'.name = "save_form_field"
              /\ current_field(form_state) # None) =>
                /\ Len(emitted) = 1
                /\ emitted[1].type = "field_saved"
                /\ emitted[1].field_id = current_field(form_state)
                /\ emitted[1].value = h_op'.value
          /\ (h_op'.name = "validate_form_field"
              /\ validation_errors' # validation_errors) =>
                /\ Len(emitted) = 1
                /\ emitted[1].type = "validation_result"
                /\ emitted[1].field_id = current_field(form_state)
                /\ emitted[1].value = h_op'.value
                /\ ~emitted[1].is_valid
          /\ ~form_unchanged => Len(emitted) = 1
          /\ (tool_pc' = "raised"
              \/ appended.reply \in {"done:true", "ok:false",
                                     "error:unhandled"}) =>
                emitted = <<>>]_vars

C25_Witness ==
    /\ tool_pc = "returned"
    /\ tool_total = MaxBatch
    /\ h_calls[1] = "validate_form_field"
    /\ h_calls[MaxBatch] = "save_form_field"
    /\ Len(h_events) = MaxBatch
    /\ h_events[1].type = "validation_result"
    /\ ~h_events[1].is_valid
    /\ h_events[MaxBatch].type = "field_saved"

----------------------------------------------------------------------------
(* A claim about the order of a field's events, checked under              *)
(* SpecBroadcast.                                                          *)

RECURSIVE IsSubsequence(_, _)
\* a is b with some of its elements left out
IsSubsequence(a, b) ==
    IF a = <<>> THEN TRUE
    ELSE IF b = <<>> THEN FALSE
    ELSE IF Head(a) = Head(b) THEN IsSubsequence(Tail(a), Tail(b))
    ELSE IsSubsequence(a, Tail(b))

\* The events a callback subscriber was run with, in order
events_of(runs) == [i \in 1..Len(runs) |-> runs[i].event]

\* C26: when the last three passes were get_next_form_field,
\* validate_form_field and save_form_field on one active field, the last
\* three events given to the emitter are that field's field_changed,
\* validation_result and field_saved, in that order, the field_saved
\* carrying the progress the save left; an event is given to the emitter
\* only while the batch's responses are unsent; and what each queue was
\* given and each callback was run with is, in order, part of what was
\* broadcast.
C26_FieldEventsInOrder ==
    [][/\ (/\ handles_a_call
           /\ Len(h_calls) >= 2
           /\ SubSeq(h_calls', Len(h_calls) - 1, Len(h_calls) + 1) =
                <<"get_next_form_field", "validate_form_field",
                  "save_form_field">>
           /\ current_field(form_state) # None) =>
             LET n == Len(h_events')
             IN  /\ n >= 3
                 /\ h_events'[n - 2].type = "field_changed"
                 /\ h_events'[n - 1].type = "validation_result"
                 /\ h_events'[n].type = "field_saved"
                 /\ \A i \in (n - 2)..n :
                       h_events'[i].field_id = current_field(form_state)
                 /\ h_events'[n].progress = progress_percent(form_state')
                 /\ current_index' = current_index + 1
       /\ h_events' # h_events => h_messages = <<>>
       /\ \A q \in Queues : IsSubsequence(h_enqueued'[q], h_broadcast')
       /\ \A s \in Subscribers :
             IsSubsequence(events_of(h_received'[s]), h_broadcast')]_vars

C26_Witness ==
    /\ h_calls = <<"get_next_form_field", "validate_form_field",
                   "save_form_field">>
    /\ Len(h_events) = 3
    /\ h_messages # <<>>
    /\ \A s \in callable_subscribers :
          /\ events_of(h_received[s]) = h_events
          /\ h_events[1] # h_events[2]
    /\ \A q \in queue_subscribers : h_enqueued[q] = h_events

----------------------------------------------------------------------------
(* Claims about the emitter, checked under SpecEvents.                     *)

\* The step is an emit or emit_sync that found a subscriber
broadcasts == h_broadcast' # h_broadcast

\* The event of the broadcast
event_sent == h_emit'.events[1]

\* The loop was given a run of s's callback with the event in this step
scheduled_on(loop, s) ==
    \E i \in (Len(ready[loop]) + 1)..Len(ready'[loop]) :
        ready'[loop][i] = [sub |-> s, event |-> event_sent]

\* s's callback was run with the event within the emit call
run_inline(s) ==
    /\ Len(h_received'[s]) = Len(h_received[s]) + 1
    /\ h_received'[s][Len(h_received'[s])] =
          [event |-> event_sent, thread |-> h_emit'.thread]

\* C27: emit_sync on the session's thread, for a callback subscribed from
\* another loop that is running, hands the run to that loop, does not run
\* the callback before it returns, and raises nothing.
C27_EmitSyncSchedulesOnRunningLoop ==
    [][(broadcasts /\ h_emit'.fn = "emit_sync"
        /\ h_emit'.thread = "session") =>
          \A s \in callable_subscribers :
             (s.loop # "session" /\ loop_running[s.loop]) =>
                /\ scheduled_on(s.loop, s)
                /\ h_received'[s] = h_received[s]
                /\ ~h_emit'.raised]_vars

\* C28: no callback, coroutine function or plain, is run by emit_sync on
\* the emitting thread when that is not the thread of the loop it was
\* subscribed from.
C28_EmitSyncNeverRunsForeignCallback ==
    [][(broadcasts /\ h_emit'.fn = "emit_sync") =>
          \A s \in callable_subscribers :
             s.loop # h_emit'.thread =>
                \A i \in (Len(h_received[s]) + 1)..Len(h_received'[s]) :
                   h_received'[s][i].thread # h_emit'.thread]_vars

\* The delivery to queue q fails: it is full
queue_full(q) == Len(queue_items[q]) >= event_queue_maxsize

\* The delivery to s fails before its callback is called: emit_sync finds
\* the loop of a coroutine function not running
loop_not_running(s) ==
    /\ h_emit'.fn = "emit_sync"
    /\ iscoroutinefunction(s.cb)
    /\ ~loop_running[s.loop]

\* C29: whatever deliveries of an emit or emit_sync fail (a queue is full,
\* a coroutine function's loop is not running, a called callback raises),
\* the call raises nothing, every queue that is not full gets the event at
\* its end, and every callback whose loop does not fail it is run with the
\* event or handed with it to a running loop.
C29_DeliveryFailureIsolated ==
    [][broadcasts =>
          /\ ~h_emit'.raised
          /\ \A q \in queue_subscribers :
                ~queue_full(q) =>
                   queue_items'[q] = Append(queue_items[q], event_sent)
          /\ \A s \in callable_subscribers :
                ~loop_not_running(s) =>
                   \/ run_inline(s)
                   \/ \E loop \in Loops :
                         loop_running[loop] /\ scheduled_on(loop, s)]_vars

C29_Witness ==
    /\ h_emit.fn = "emit_sync"
    /\ h_emit.dropped # {}
    /\ \E s \in h_emit.failed : ~iscoroutinefunction(s.cb)
    /\ \E s \in callable_subscribers :
          /\ iscoroutinefunction(s.cb)
          /\ ready[s.loop] # <<>>
          /\ ready[s.loop][Len(ready[s.loop])] =
                [sub |-> s, event |-> h_emit.events[1]]

\* C30: an emit or emit_sync that finds a subscriber's queue full leaves
\* the queue's items as they were, gives the queue nothing, raises nothing,
\* and still reaches the callbacks.
C30_FullQueueDropsEvent ==
    [][broadcasts =>
          \A q \in queue_subscribers :
             queue_full(q) =>
                /\ queue_items'[q] = queue_items[q]
                /\ h_enqueued'[q] = h_enqueued[q]
                /\ ~h_emit'.raised
                /\ \A s \in callable_subscribers :
                      ~iscoroutinefunction(s.cb) => run_inline(s)]_vars

C30_Witness ==
    /\ h_emit.fn = "emit"
    /\ h_emit.dropped # {}
    /\ h_emit.inline # {}
    /\ \A q \in h_emit.dropped :
          /\ Len(queue_items[q]) = event_queue_maxsize
          /\ queue_items[q][1] # queue_items[q][2]

\* C32: process_frame never raises on a frame of any length, 0 included: the
\* frame it classifies has exactly frame_size bytes, the given frame's first
\* bytes followed by zeros, with webrtcvad as with the energy fallback.
C32_WrongSizeFramePaddedOrTruncated ==
    h_frame.result \notin {"idle", "none"} =>
        /\ h_frame.result # "raised"
        /\ Len(h_frame.classified) = frame_size
        /\ \A i \in 1..frame_size :
            h_frame.classified[i] =
                IF i <= Len(h_frame.given) THEN h_frame.given[i] ELSE 0

C32_Witness ==
    /\ Len(h_frame.given) = frame_size + 1
    /\ ~webrtc_vad
    /\ h_frame.result = "speech"

\* C36: once process_frame has returned SPEECH_ENDED, every later
\* process_frame call returns SPEECH_ENDED whatever the frame, until reset();
\* reset() leaves the detector equal to a freshly constructed one: state
\* SILENCE, both windows empty, no timing.
C36_EndedUntilReset ==
    [][/\ (vad.state = SPEECH_ENDED /\ h_called') =>
            (vad'.state = SPEECH_ENDED /\ h_ret' = SPEECH_ENDED)
       /\ ~h_called' => vad' = VoiceActivityDetector]_vars

C36_Witness ==
    /\ h_called
    /\ h_prev = SPEECH_ENDED
    /\ h_ret = SPEECH_ENDED
    /\ vad.speech_frames # <<>>

\* C33: pre_speech_buffer never holds more than max_buffer_size frames, the
\* most recent ones that were not forwarded; on the iteration in which the
\* detector goes to SPEAKING the whole buffer is put on mic_queue, oldest
\* first, followed by the triggering frame, and the buffer is left empty.
C33_BufferFlushedWholeOnSpeechStart ==
    [][captured' = captured + 1 =>
        /\ Len(pre_speech_buffer') <= max_buffer_size
        /\ ~h_fwd' =>
            pre_speech_buffer' =
                (IF Len(pre_speech_buffer) = max_buffer_size
                 THEN Tail(pre_speech_buffer) ELSE pre_speech_buffer)
                \o <<captured'>>
        /\ (h_ret' = SPEAKING /\ ~is_currently_speaking) =>
            /\ mic_queue' = mic_queue \o pre_speech_buffer \o <<captured'>>
            /\ pre_speech_buffer' = <<>>]_vars

\* C34: the iteration that closes the trailing window (it resets the
\* detector) forwards frame number max_post_speech_frames of the window,
\* the frame on which SPEECH_ENDED was reported being number 1; every frame
\* of the window is forwarded and none after it until speech starts again.
C34_TrailingWindowLength ==
    [][captured' = captured + 1 =>
        /\ ~h_called' => h_window' = max_post_speech_frames
        /\ h_trail' => h_fwd'
        /\ (~h_trail' /\ ~is_currently_speaking' /\ h_ret' # SPEAKING) =>
            ~h_fwd']_vars

\* C31: both frame queues are bounded: with their consumers stalled, neither
\* mic_queue nor playback_queue ever holds more than a fixed capacity (that
\* of mic_queue, the only one the pipelines configure), however many audio
\* parts the session delivers.
C31_BothQueuesBounded ==
    /\ Len(mic_queue) <= mic_queue_maxsize
    /\ Len(playback_queue) <= mic_queue_maxsize

\* C37: when play_guard is set and the session has no further audio part to
\* deliver, the guard is eventually cleared (or the session is stopping),
\* under every interleaving of the receive loop's messages and interruptions
\* with the playback loop: transmission is not suppressed forever while the
\* session keeps running.
C37_GuardEventuallyCleared ==
    (play_guard /\ next_chunk = MaxChunks) ~> (~play_guard \/ stop_event)

\* Every part was delivered and written with no interruption, and the write
\* of the last one has cleared the guard.
C37_Witness ==
    /\ next_chunk = MaxChunks
    /\ h_mark = 0
    /\ playback_queue = <<>>
    /\ play_pc = "get"
    /\ ~play_guard
    /\ ~stop_event

\* C35: at most one pipeline thread is alive at a time: start() launches a
\* thread only when none is alive, and a stop() that returns True leaves no
\* pipeline thread alive.
C35_AtMostOnePipelineThread ==
    /\ [](Cardinality(alive) <= 1)
    /\ [][/\ launched' # launched => alive = {}
          /\ (h_runner' # h_runner /\ h_runner'.op = "stop"
                /\ h_runner'.returned) => alive' = {}]_vars

\* C40: whenever every pipeline thread start() launched has terminated and
\* no start() is under way, is_running() is False and
\* get_current_session_id() is None, also when the thread terminated before
\* start() returned.
C40_FlagsClearedAfterThreadEnds ==
    (launched > 0 /\ alive = {} /\ start_pc = "idle") =>
        (~_is_running /\ _current_session_id = None)

\* C38: the server's FormState mirrors the session's: both starting equal
\* and every field_saved being handled in emission order with no REST update
\* in between, after each one handled the server's answers and current_index
\* are those the session had when it emitted that event.
C38_ServerMirrorsSession ==
    h_synced > 0 =>
        /\ sessions.answers = h_saved[h_synced].answers
        /\ sessions.current_index = h_saved[h_synced].current_index

\* The server has handled the first field_saved while the session has
\* already emitted the second.
C38_Witness ==
    /\ h_synced = 1
    /\ Len(h_saved) = 2
    /\ sessions.current_index = 1
    /\ current_index = 2

\* The event of the emit_sync in hand has reached the subscriber
delivered_to_queue(q) ==
    \E i \in 1..Len(queue_items[q]) :
        queue_items[q][i] = h_broadcast[Len(h_broadcast)]

delivered_to_callback(sub) ==
    \E i \in 1..Len(ready[sub.loop]) :
        ready[sub.loop][i] =
            [sub |-> sub, event |-> h_broadcast[Len(h_broadcast)]]

\* C39: an emit_sync on the session's thread that runs beside subscribe() or
\* unsubscribe() on the server's loop never raises to its caller, and when
\* it is over the event has been given to every subscriber that was
\* subscribed for the whole call.
C39_EmitSyncSafeBesideSubscribe ==
    /\ emit_pc # "raised"
    /\ emit_pc = "returned" =>
        /\ \A q \in h_stayed : delivered_to_queue(q)
        /\ h_broadcast # <<>> =>
            \A sub \in callable_subscribers : delivered_to_callback(sub)

====
